---- MODULE Spec2Model ----
(***************************************************************************)
(* Verification model of the "Thought of the Day" tutorial API:            *)
(*   - the week-2 validators (step-7, step-8, combined solution,           *)
(*     week-2/solution/app.py, src/app.py),                                *)
(*   - the week-2 in-memory stores and their handlers,                     *)
(*   - the week-3 repositories (raw SQL over psycopg2, SQLAlchemy ORM).    *)
(* Strings are sequences of one-character strings, JSON values are tagged  *)
(* records [t, v], Python exceptions are class names.                      *)
(***************************************************************************)
EXTENDS Integers, Sequences, FiniteSets, TLC

VARIABLES
    \* ---- pure validation (one call of a validator) ----
    v_fn,              \* which validator is called
    v_data,            \* the candidate (parsed request body)
    v_partial,         \* the 'partial' flag of the call
    v_result,          \* what the call returned
    \* ---- week-2 application state ----
    variant,           \* which file is running
    thoughts_storage,  \* the module-level list (or the thoughts table of src/app.py)
    next_id,           \* the module-level id counter (or the table's serial)
    clock,             \* datetime.now()
    response,          \* the last HTTP response
    issued_ids,        \* ids returned by successful creates, oldest first
    deleted_ids,       \* ids a delete of one thought has removed (step-8, week 3)
    \* ---- week-3 repositories ----
    backend,           \* "raw" or "orm"
    table,             \* committed rows of the thoughts table
    id_seq,            \* the table's serial sequence
    db_clock,          \* CURRENT_TIMESTAMP
    outcome,           \* the last repository call and what the app answered
    \* ---- raw-SQL requests in flight ----
    reqs,              \* per request: operation, position, what it read, result
    \* ---- one DatabaseManager.execute_transaction call ----
    txn                \* connection, cursor position, uncommitted rows, result

valvars  == <<v_fn, v_data, v_partial, v_result>>
memvars  == <<variant, thoughts_storage, next_id, clock, response, issued_ids>>
repovars == <<backend, table, id_seq, db_clock, outcome>>
vars     == <<v_fn, v_data, v_partial, v_result,
              variant, thoughts_storage, next_id, clock, response, issued_ids,
              deleted_ids, backend, table, id_seq, db_clock, outcome, reqs, txn>>

----------------------------------------------------------------------------
(* Bounds of the model *)

MaxTextLen == 282       \* longest 'text' core handed to a week-2 validator
MaxTagCount == 6        \* longest 'tags' list handed to a validator
MaxTagLen == 21         \* longest tag core handed to a validator

----------------------------------------------------------------------------
(* Python strings *)

Whitespace == {" ", "\t", "\n"}

Rep(c, n) == [i \in 1..n |-> c]

SetMin(S) == CHOOSE m \in S : \A k \in S : m <= k

\* number of whitespace characters s starts with / ends with
LeadingWs(s) ==
    CHOOSE k \in 0..Len(s) :
        /\ (k = Len(s) \/ s[k + 1] \notin Whitespace)
        /\ \A i \in 1..k : s[i] \in Whitespace
TrailingWs(s) ==
    CHOOSE k \in 0..Len(s) :
        /\ (k = Len(s) \/ s[Len(s) - k] \notin Whitespace)
        /\ \A i \in 1..k : s[Len(s) - i + 1] \in Whitespace

\* str.strip(): drop the leading and the trailing whitespace characters
strip(s) ==
    IF LeadingWs(s) = Len(s) THEN <<>>
    ELSE SubSeq(s, LeadingWs(s) + 1, Len(s) - TrailingWs(s))

----------------------------------------------------------------------------
(* JSON values as Python sees them after request.get_json() *)

Str(s)  == [t |-> "str",  v |-> s]
Num(n)  == [t |-> "int",  v |-> n]
Lst(s)  == [t |-> "list", v |-> s]
Null    == [t |-> "null", v |-> 0]

IsStr(x)  == x.t = "str"
IsList(x) == x.t = "list"
IsInt(x)  == x.t = "int"

\* a request body: None, or a dict given as a function from its keys
NoBody == [t |-> "null", v |-> <<>>]
Dict(f) == [t |-> "dict", v |-> f]
Has(data, key) == key \in DOMAIN data.v

\* Python truthiness of the body: None and {} are falsy
Falsy(data) == data.t = "null" \/ DOMAIN data.v = {}

----------------------------------------------------------------------------
(* Validation rules of the week-2 files *)

MinTextLen == 5
MaxTextChars == 280
MinTagLen == 2
MaxTagChars == 20
MaxTags == 5

\* result of the validators that return (is_valid, error_message);
\* 'raised' is the Python exception that escaped instead, "None" if none
Ok == [is_valid |-> TRUE, error_message |-> "None", raised |-> "None"]
Fail(msg) == [is_valid |-> FALSE, error_message |-> msg, raised |-> "None"]
Raise(exc) == [is_valid |-> FALSE, error_message |-> "None", raised |-> exc]

\* the first message of a list of per-tag verdicts that is not "None"
FirstError(verdicts) ==
    LET bad == {i \in 1..Len(verdicts) : verdicts[i] # "None"}
    IN  IF bad = {} THEN "None" ELSE verdicts[SetMin(bad)]

\* step-7 / step-8 / src/app.py: the body of "for tag in data['tags']"
tag_check(tag) ==
    IF ~IsStr(tag) THEN "All tags must be strings"
    ELSE IF Len(strip(tag.v)) < MinTagLen THEN "Each tag must be at least 2 characters long"
    ELSE IF Len(tag.v) > MaxTagChars THEN "Each tag must not exceed 20 characters"
    ELSE "None"

\* "for tag in data['tags']": the first tag that is rejected decides
tags_check(tags) == FirstError([i \in 1..Len(tags) |-> tag_check(tags[i])])

\* a 'text' rule that measures the untrimmed string against the lower bound
text_check_raw_min(text) ==
    IF ~IsStr(text) THEN "Field 'text' must be a string"
    ELSE IF Len(text.v) < MinTextLen THEN "Field 'text' must be at least 5 characters long"
    ELSE IF Len(strip(text.v)) > MaxTextChars THEN "Field 'text' must not exceed 280 characters"
    ELSE "None"

\* the 'text' rule shared by step-7, step-8 and the combined solution
text_check(text) ==
    IF ~IsStr(text) THEN "Field 'text' must be a string"
    ELSE IF Len(strip(text.v)) < MinTextLen THEN "Field 'text' must be at least 5 characters long"
    ELSE IF Len(strip(text.v)) > MaxTextChars THEN "Field 'text' must not exceed 280 characters"
    ELSE "None"

\* a cardinality rule that lets the empty list through
tags_count_check_no_floor(tags) ==
    IF Len(tags) > MaxTags THEN "Maximum 5 tags allowed" ELSE "None"

\* the cardinality rule of the tags list shared by step-7, step-8, combined
tags_count_check(tags) ==
    IF Len(tags) = 0 THEN "At least one tag is required"
    ELSE IF Len(tags) > MaxTags THEN "Maximum 5 tags allowed"
    ELSE "None"

\* step-7-validation.py validate_thought_data(data)
validate_thought_data_step7(data) ==
    IF Falsy(data) THEN Fail("Request body is required")
    ELSE IF ~Has(data, "text") THEN Fail("Field 'text' is required")
    ELSE IF text_check(data.v.text) # "None" THEN Fail(text_check(data.v.text))
    ELSE IF ~Has(data, "tags") THEN Fail("Field 'tags' is required")
    ELSE IF ~IsList(data.v.tags) THEN Fail("Field 'tags' must be an array")
    ELSE IF tags_count_check(data.v.tags.v) # "None" THEN Fail(tags_count_check(data.v.tags.v))
    ELSE IF tags_check(data.v.tags.v) # "None"
         THEN Fail(tags_check(data.v.tags.v))
    ELSE Ok

\* step-8-full-crud.py validate_thought_data(data, partial)
validate_thought_data_step8(data, partial) ==
    IF Falsy(data) THEN Fail("Request body is required")
    ELSE IF Has(data, "text") /\ text_check(data.v.text) # "None" THEN Fail(text_check(data.v.text))
    ELSE IF ~Has(data, "text") /\ ~partial THEN Fail("Field 'text' is required")
    ELSE IF Has(data, "tags") THEN
        IF ~IsList(data.v.tags) THEN Fail("Field 'tags' must be an array")
        ELSE IF tags_count_check(data.v.tags.v) # "None" THEN Fail(tags_count_check(data.v.tags.v))
        ELSE IF tags_check(data.v.tags.v) # "None"
             THEN Fail(tags_check(data.v.tags.v))
        ELSE Ok
    ELSE IF ~partial THEN Fail("Field 'tags' is required")
    ELSE Ok

\* characters of the class [a-zA-Z0-9-]
AlnumHyphen ==
    {"a","b","c","d","e","f","g","h","i","j","k","l","m","n","o","p","q","r",
     "s","t","u","v","w","x","y","z","A","B","C","F","L","P","R","S","T","I",
     "0","1","2","3","4","5","6","7","8","9","-"}

\* re.match(r'^[a-zA-Z0-9-]+$', tag): '$' also matches before one final newline
tag_regex_match(s) ==
    LET body == IF Len(s) > 0 /\ s[Len(s)] = "\n" THEN SubSeq(s, 1, Len(s) - 1) ELSE s
    IN  /\ Len(body) > 0
        /\ \A i \in 1..Len(body) : body[i] \in AlnumHyphen

\* combined solution: the body of "for tag in data['tags']"
tag_check_combined(tag) ==
    IF tag_check(tag) # "None" THEN tag_check(tag)
    ELSE IF ~tag_regex_match(tag.v) THEN "Tags must contain only alphanumeric characters and hyphens"
    ELSE "None"

tags_check_combined(tags) == FirstError([i \in 1..Len(tags) |-> tag_check_combined(tags[i])])

\* set(data["tags"]) raises TypeError for an element that is a list or a dict
Hashable(x) == x.t \in {"str", "int", "null"}
HasDuplicates(tags) == Len(tags) # Cardinality({tags[i] : i \in 1..Len(tags)})

\* steps-5-8-combined-solution.py validate_thought_data(data, partial)
validate_thought_data_combined(data, partial) ==
    IF Falsy(data) THEN Fail("Request body is required")
    ELSE IF Has(data, "text") /\ text_check(data.v.text) # "None" THEN Fail(text_check(data.v.text))
    ELSE IF ~Has(data, "text") /\ ~partial THEN Fail("Field 'text' is required")
    ELSE IF Has(data, "tags") THEN
        IF ~IsList(data.v.tags) THEN Fail("Field 'tags' must be an array")
        ELSE IF tags_count_check(data.v.tags.v) # "None" THEN Fail(tags_count_check(data.v.tags.v))
        ELSE IF \E i \in 1..Len(data.v.tags.v) : ~Hashable(data.v.tags.v[i]) THEN Raise("TypeError")
        ELSE IF HasDuplicates(data.v.tags.v) THEN Fail("Duplicate tags are not allowed")
        ELSE IF tags_check_combined(data.v.tags.v) # "None"
             THEN Fail(tags_check_combined(data.v.tags.v))
        ELSE Ok
    ELSE IF ~partial THEN Fail("Field 'tags' is required")
    ELSE Ok

\* src/app.py: the 'text' branch of validate_thought_data (errors it appends)
app_text_errors(data) ==
    IF ~Has(data, "text") THEN <<"'text' field is required">>
    ELSE IF ~IsStr(data.v.text) THEN <<"'text' must be a string">>
    ELSE IF Len(strip(data.v.text.v)) < MinTextLen THEN <<"'text' must be at least 5 characters long">>
    ELSE IF Len(data.v.text.v) > MaxTextChars THEN <<"'text' cannot exceed 280 characters">>
    ELSE <<>>

\* src/app.py: the 'tags' branch of validate_thought_data
app_tags_errors(data) ==
    IF ~Has(data, "tags") THEN <<"'tags' field is required">>
    ELSE IF ~IsList(data.v.tags) THEN <<"'tags' must be an array">>
    ELSE IF Len(data.v.tags.v) = 0 THEN <<"At least one tag is required">>
    ELSE IF Len(data.v.tags.v) > MaxTags THEN <<"Cannot have more than 5 tags">>
    ELSE LET e == tags_check(data.v.tags.v)
         IN  IF e = "None" THEN <<>>
             ELSE IF e = "Each tag must not exceed 20 characters"
                  THEN <<"Each tag cannot exceed 20 characters">>
             ELSE <<e>>

\* src/app.py validate_thought_data(data): the list of error messages
validate_thought_data_app(data) ==
    IF Falsy(data) THEN <<"Request body is required">>
    ELSE app_text_errors(data) \o app_tags_errors(data)

\* week-2/solution/app.py validate_thought_input(data): the list of errors
validate_thought_input(data) ==
    IF Falsy(data) THEN <<"Request body is required">>
    ELSE (IF ~Has(data, "text") THEN <<"The 'text' field is required">>
          ELSE IF ~IsStr(data.v.text) THEN <<"The 'text' field must be a string">>
          ELSE IF Len(strip(data.v.text.v)) < MinTextLen
               THEN <<"The 'text' field must be at least 5 characters long">>
          ELSE IF Len(data.v.text.v) > MaxTextChars
               THEN <<"The 'text' field must not exceed 280 characters">>
          ELSE <<>>)
         \o
         (IF ~Has(data, "tags") THEN <<"The 'tags' field is required">>
          ELSE IF ~IsList(data.v.tags) THEN <<"The 'tags' field must be an array">>
          ELSE IF \E i \in 1..Len(data.v.tags.v) : ~IsStr(data.v.tags.v[i])
               THEN <<"All tags must be strings">>
          ELSE <<>>)

----------------------------------------------------------------------------
(* Candidates handed to the validators *)

Leads  == {<<>>, <<" ", "\n">>}
Trails == {<<>>, <<"\t">>}

\* n non-whitespace characters, with an inner space when there is room for one
Core(n, inner) == [i \in 1..n |-> IF inner /\ n >= 3 /\ i = 2 THEN " " ELSE "a"]

TextInputs ==
    {l \o Core(n, inner) \o r : l \in Leads, r \in Trails, n \in 0..MaxTextLen, inner \in BOOLEAN}

TagInputs ==
    {Str(l \o Rep("a", n) \o r) : l \in Leads, r \in Trails, n \in 0..MaxTagLen}
    \cup {Str(Rep("a", n) \o <<"\n">>) : n \in 1..3}
    \cup {Str(<<"a", "!">>), Num(7), Null, Lst(<<>>)}

\* pairwise distinct tags that every variant accepts
ValidTag(i) == Str(Rep("b", i + 1))
GoodText == Str(<<"h", "e", "l", "l", "o">>)
GoodTags == Lst(<<ValidTag(1)>>)

TagLists ==
    {Lst([i \in 1..k |-> ValidTag(i)]) : k \in 0..MaxTagCount}
    \cup {Lst([i \in 1..k |-> Lst(<<>>)]) : k \in 0..MaxTagCount}
    \cup {Lst(<<x>>) : x \in TagInputs}
    \cup {Lst(<<ValidTag(1), x>>) : x \in TagInputs}
    \cup {Lst(<<x, ValidTag(1)>>) : x \in TagInputs}

NonStrings == {Num(7), Null, Lst(<<>>)}
NonLists == {Num(7), Null, Str(<<"a", "b">>)}

Candidates ==
    {NoBody, Dict(<<>>)}
    \cup {Dict([text |-> Str(x), tags |-> GoodTags]) : x \in TextInputs}
    \cup {Dict([text |-> Str(x)]) : x \in TextInputs}
    \cup {Dict([text |-> Str(x), tags |-> Lst(<<>>)]) : x \in {<<"h", "i">>}}
    \cup {Dict([text |-> GoodText, tags |-> g]) : g \in TagLists}
    \cup {Dict([tags |-> g]) : g \in TagLists}
    \cup {Dict([text |-> x, tags |-> GoodTags]) : x \in NonStrings}
    \cup {Dict([text |-> GoodText, tags |-> g]) : g \in NonLists}

Validators == {"step7", "step8", "combined", "app", "solution"}
TakesPartial(fn) == fn \in {"step8", "combined"}

\* what a call returned, in one shape for the five validators:
\* valid, the messages reported, the exception that escaped
Returned(r) ==
    [done |-> TRUE, valid |-> r.is_valid,
     errors |-> IF r.error_message = "None" THEN <<>> ELSE <<r.error_message>>,
     raised |-> r.raised]
ReturnedList(errors) ==
    [done |-> TRUE, valid |-> errors = <<>>, errors |-> errors, raised |-> "None"]
NotCalled == [done |-> FALSE, valid |-> FALSE, errors |-> <<>>, raised |-> "None"]

CallValidator(fn, data, partial) ==
    CASE fn = "step7"    -> Returned(validate_thought_data_step7(data))
      [] fn = "step8"    -> Returned(validate_thought_data_step8(data, partial))
      [] fn = "combined" -> Returned(validate_thought_data_combined(data, partial))
      [] fn = "app"      -> ReturnedList(validate_thought_data_app(data))
      [] fn = "solution" -> ReturnedList(validate_thought_input(data))

----------------------------------------------------------------------------
(* Idle values of the state a specification does not use *)

IdleVal  == /\ v_fn = "none" /\ v_data = NoBody /\ v_partial = FALSE /\ v_result = NotCalled
IdleMem  == /\ variant = "none" /\ thoughts_storage = <<>> /\ next_id = 1 /\ clock = 0
            /\ response = [op |-> "none", code |-> 0] /\ issued_ids = <<>>
            /\ deleted_ids = {}
IdleRepo == /\ backend = "none" /\ table = {} /\ id_seq = 1 /\ db_clock = 0
            /\ outcome = [op |-> "none"]
IdleReqs == reqs = <<>>
IdleTxn  == txn = [pc |-> "none"]

----------------------------------------------------------------------------
(* SpecValidate: one call of one validator on one candidate *)

InitValidate ==
    /\ v_fn \in Validators
    /\ v_data \in Candidates
    /\ v_partial \in (IF TakesPartial(v_fn) THEN BOOLEAN ELSE {FALSE})
    /\ v_result = NotCalled
    /\ IdleMem /\ IdleRepo /\ IdleReqs /\ IdleTxn

Validate ==
    /\ ~v_result.done
    /\ v_result' = CallValidator(v_fn, v_data, v_partial)
    /\ UNCHANGED <<v_fn, v_data, v_partial>>
    /\ UNCHANGED <<memvars, deleted_ids, repovars, reqs, txn>>

NextValidate == Validate

SpecValidate == InitValidate /\ [][NextValidate]_vars

\* the trimmed length of the candidate's text, when it is a string
TextIsStr == Has(v_data, "text") /\ IsStr(v_data.v.text)
TrimmedTextLen == Len(strip(v_data.v.text.v))

\* C9: a text whose whitespace-trimmed length is below 5 or above 280 is
\* reported invalid by every week-2 validator, and by the partial validation
\* of step-8 and the combined solution whenever 'text' is present.
C9_TextLengthRejected ==
    (v_result.done /\ ~Falsy(v_data) /\ TextIsStr
       /\ (TrimmedTextLen < MinTextLen \/ TrimmedTextLen > MaxTextChars))
    => (~v_result.valid /\ v_result.raised = "None" /\ v_result.errors # <<>>)

\* a padded text of trimmed length 4 and raw length >= 5 was rejected by the
\* partial validation of step-8
C9_Witness ==
    /\ v_result.done /\ v_fn = "step8" /\ v_partial /\ TextIsStr
    /\ ~Has(v_data, "tags")
    /\ TrimmedTextLen = 4 /\ Len(v_data.v.text.v) >= MinTextLen
    /\ ~v_result.valid

TagsIsList == Has(v_data, "tags") /\ IsList(v_data.v.tags)
TagCount == Len(v_data.v.tags.v)
CardinalityMessages ==
    {"At least one tag is required", "Maximum 5 tags allowed", "Cannot have more than 5 tags"}
ReportsCardinality == \E i \in 1..Len(v_result.errors) : v_result.errors[i] \in CardinalityMessages

\* C10: validate_thought_data of step-7, step-8, the combined solution and
\* src/app.py reports a candidate invalid when 'tags' is a list of 0 or of
\* more than 5 elements, and reports no cardinality error for 1 to 5 elements.
C10_TagCardinality ==
    (v_result.done /\ v_fn \in {"step7", "step8", "combined", "app"}
       /\ ~Falsy(v_data) /\ TagsIsList)
    => /\ (TagCount = 0 \/ TagCount > MaxTags)
            => (~v_result.valid /\ v_result.raised = "None" /\ v_result.errors # <<>>)
       /\ (TagCount >= 1 /\ TagCount <= MaxTags) => ~ReportsCardinality

\* a list of six tags was rejected for its cardinality although its text is valid
C10_Witness ==
    /\ v_result.done /\ v_fn \in {"step7", "step8", "combined", "app"} /\ TagsIsList
    /\ TagCount = MaxTags + 1 /\ ~v_result.valid /\ ReportsCardinality
    /\ Has(v_data, "text") /\ v_data.v.text = GoodText

AllTagsAreStrings == \A i \in 1..TagCount : IsStr(v_data.v.tags.v[i])
TrimmedTagLen(i) == Len(strip(v_data.v.tags.v[i].v))
TagLengthMessages ==
    {"Each tag must be at least 2 characters long",
     "Each tag must not exceed 20 characters", "Each tag cannot exceed 20 characters"}
ReportsTagLength == \E i \in 1..Len(v_result.errors) : v_result.errors[i] \in TagLengthMessages
SomeTagOutside ==
    \E i \in 1..TagCount : TrimmedTagLen(i) < MinTagLen \/ TrimmedTagLen(i) > MaxTagChars

\* C11: validate_thought_data of step-7, step-8, the combined solution and
\* src/app.py applies the tag length rule to the whitespace-trimmed tag: a
\* candidate with a tag of trimmed length outside 2..20 is reported invalid,
\* and a tag length error is reported only when some tag has a trimmed length
\* outside 2..20.
C11_TagLengthOnTrimmed ==
    (v_result.done /\ v_fn \in {"step7", "step8", "combined", "app"}
       /\ ~Falsy(v_data) /\ TagsIsList /\ AllTagsAreStrings)
    => /\ SomeTagOutside => ~v_result.valid
       /\ ReportsTagLength => SomeTagOutside


----------------------------------------------------------------------------
(* The week-2 stores: step-8-full-crud.py ("step8"), the combined solution *)
(* ("combined"), week-2/solution/app.py ("solution"), src/app.py ("app")   *)

MaxClock == 2           \* successful writes per run (each reads the clock once)
MaxId == 3              \* largest id a request addresses

Anonymous == Str(<<"A", "n", "o", "n", "y", "m", "o", "u", "s">>)

\* module-level data of steps-5-8-combined-solution.py; the timestamps are
\* hours before the server starts
combined_initial_storage == <<
    [id |-> 1, text |-> <<"F", "l", "a", "s", "k", " ", "i", "s", " ", "a", "w", "e", "s", "o", "m", "e", "!">>,
     tags |-> <<<<"f", "l", "a", "s", "k">>, <<"p", "y", "t", "h", "o", "n">>>>,
     author |-> Str(<<"A", "l", "i", "c", "e">>), timestamp |-> -5, updated_at |-> Null],
    [id |-> 2, text |-> <<"R", "E", "S", "T", " ", "A", "P", "I", "s", " ", "a", "r", "e", " ", "e", "v", "e", "r", "y", "w", "h", "e", "r", "e">>,
     tags |-> <<<<"a", "p", "i", "-", "d", "e", "s", "i", "g", "n">>>>,
     author |-> Str(<<"B", "o", "b">>), timestamp |-> -4, updated_at |-> Null],
    [id |-> 3, text |-> <<"L", "e", "a", "r", "n", "i", "n", "g", " ", "b", "y", " ", "d", "o", "i", "n", "g", " ", "w", "o", "r", "k", "s">>,
     tags |-> <<<<"l", "e", "a", "r", "n", "i", "n", "g">>, <<"g", "r", "o", "w", "t", "h">>>>,
     author |-> Str(<<"A", "l", "i", "c", "e">>), timestamp |-> -3, updated_at |-> Null],
    [id |-> 4, text |-> <<"P", "y", "t", "h", "o", "n", " ", "i", "s", " ", "v", "e", "r", "s", "a", "t", "i", "l", "e">>,
     tags |-> <<<<"p", "y", "t", "h", "o", "n">>, <<"p", "r", "o", "g", "r", "a", "m", "m", "i", "n", "g">>>>,
     author |-> Str(<<"C", "h", "a", "r", "l", "i", "e">>), timestamp |-> -2, updated_at |-> Null],
    [id |-> 5, text |-> <<"F", "l", "a", "s", "k", " ", "m", "a", "k", "e", "s", " ", "A", "P", "I", "s", " ", "e", "a", "s", "y">>,
     tags |-> <<<<"f", "l", "a", "s", "k">>, <<"p", "y", "t", "h", "o", "n">>, <<"a", "p", "i", "-", "d", "e", "s", "i", "g", "n">>>>,
     author |-> Str(<<"A", "l", "i", "c", "e">>), timestamp |-> -1, updated_at |-> Null] >>

\* the sample thought step-8-full-crud.py appends when run as a script
step8_sample_storage == <<
    [id |-> 1, text |-> <<"F", "l", "a", "s", "k", " ", "m", "a", "k", "e", "s", " ", "b", "u", "i", "l", "d", "i", "n", "g", " ", "A", "P", "I", "s", " ", "f", "u", "n", "!">>,
     tags |-> <<<<"f", "l", "a", "s", "k">>, <<"p", "y", "t", "h", "o", "n">>>>,
     timestamp |-> -1, updated_at |-> Null] >>

\* initialize_sample_data() of week-2/solution/app.py
solution_sample_storage == <<
    [id |-> 1, text |-> <<"A", "l", "w", "a", "y", "s", " ", "b", "e", " ", "l", "e", "a", "r", "n", "i", "n", "g", ".">>, timestamp |-> -3,
     tags |-> <<<<"i", "n", "s", "p", "i", "r", "a", "t", "i", "o", "n">>, <<"g", "r", "o", "w", "t", "h">>>>],
    [id |-> 2, text |-> <<"T", "h", "e", " ", "A", "P", "I", " ", "c", "o", "n", "t", "r", "a", "c", "t", " ", "i", "s", " ", "v", "i", "t", "a", "l", ".">>, timestamp |-> -2,
     tags |-> <<<<"a", "p", "i", "-", "d", "e", "s", "i", "g", "n">>, <<"f", "l", "a", "s", "k">>>>],
    [id |-> 3, text |-> <<"L", "e", "a", "r", "n", "i", "n", "g", " ", "t", "o", " ", "f", "i", "l", "t", "e", "r", " ", "d", "a", "t", "a", " ", "i", "s", " ", "k", "e", "y", " ", "t", "o", " ", "p", "o", "w", "e", "r", "f", "u", "l", " ", "A", "P", "I", "s", ".">>, timestamp |-> -1,
     tags |-> <<<<"a", "p", "i", "-", "d", "e", "s", "i", "g", "n">>, <<"p", "r", "o", "g", "r", "a", "m", "m", "i", "n", "g">>, <<"f", "l", "a", "s", "k">>>>] >>

\* request bodies sent to the stores
Hello == <<" ", "h", "e", "l", "l", "o", "\n">>
World == <<"w", "o", "r", "l", "d", " ">>
MemBodies == {
    NoBody,
    Dict([text |-> Str(Hello), tags |-> Lst(<<Str(<<"a", "b", "\n">>), Str(<<"c", "d">>)>>)]),
    Dict([text |-> Str(World)]),
    Dict([tags |-> Lst(<<Str(<<"f", "l", "a", "s", "k">>)>>)]),
    Dict([text |-> Str(<<" ", "h", "i", " ", " ">>), tags |-> Lst(<<Str(<<"c", "d">>)>>)]),
    Dict([text |-> Str(Hello), tags |-> Lst(<<Str(<<"c", "d">>), Str(<<" ", "a", " ">>)>>)]),
    Dict([text |-> Str(Hello), tags |-> Lst(<<Lst(<<Str(<<"c", "d">>)>>)>>)]) }

\* bodies of create requests to the variants that store an author: one
\* valid but for an 'author' that is a number, and one whose two tags differ
\* by a trailing newline only
CreateBodies ==
    MemBodies \cup
    {Dict([text |-> Str(Hello), tags |-> Lst(<<Str(<<"c", "d">>)>>), author |-> Num(7)]),
     Dict([text |-> Str(Hello), tags |-> Lst(<<Str(<<"c", "d">>), Str(<<"c", "d", "\n">>)>>)])}

\* find_thought_by_id: position of the first thought with this id, 0 if none
find_thought_by_id(storage, thought_id) ==
    LET hits == {i \in 1..Len(storage) : storage[i].id = thought_id}
    IN  IF hits = {} THEN 0 ELSE SetMin(hits)

\* list.remove(x): drop the first element equal to x
list_remove(storage, x) ==
    LET hits == {i \in 1..Len(storage) : storage[i] = x}
        k == SetMin(hits)
    IN  IF hits = {} THEN storage
        ELSE SubSeq(storage, 1, k - 1) \o SubSeq(storage, k + 1, Len(storage))

\* [tag.strip() for tag in data["tags"]]
strip_tags(tags) == [i \in 1..Len(tags) |-> strip(tags[i].v)]
\* data["tags"] stored as sent
raw_tags(tags) == [i \in 1..Len(tags) |-> tags[i].v]

ErrorResponse(op, id, code, message) ==
    [op |-> op, id |-> id, code |-> code, message |-> message, thought |-> Null]
ThoughtResponse(op, id, code, thought) ==
    [op |-> op, id |-> id, code |-> code, message |-> "None", thought |-> thought]

\* the store and the response a handler leaves behind
Leaves(storage, nid, resp) == [storage |-> storage, next_id |-> nid, response |-> resp]
WithField(thought, field, value) == [thought EXCEPT ![field] = value]
Replace(storage, i, thought) == [storage EXCEPT ![i] = thought]

----------------------------------------------------------------------------
(* step-8-full-crud.py handlers *)

\* a create that numbers the new thought with the smallest id not stored
step8_create_thought_smallest_free_id(storage, nid, data, now) ==
    LET r == validate_thought_data_step8(data, FALSE)
        free == SetMin({k \in 1..(Len(storage) + 1) :
                          \A i \in 1..Len(storage) : storage[i].id # k})
        new_thought == [id |-> free, text |-> strip(data.v.text.v),
                        tags |-> strip_tags(data.v.tags.v),
                        timestamp |-> now, updated_at |-> Null]
    IN  IF ~r.is_valid THEN Leaves(storage, nid, ErrorResponse("POST", 0, 400, r.error_message))
        ELSE Leaves(Append(storage, new_thought), nid + 1,
                    ThoughtResponse("POST", free, 201, new_thought))

\* POST /api/v1/thoughts
step8_create_thought(storage, nid, data, now) ==
    LET r == validate_thought_data_step8(data, FALSE)
        new_thought == [id |-> nid, text |-> strip(data.v.text.v),
                        tags |-> strip_tags(data.v.tags.v),
                        timestamp |-> now, updated_at |-> Null]
    IN  IF ~r.is_valid THEN Leaves(storage, nid, ErrorResponse("POST", 0, 400, r.error_message))
        ELSE Leaves(Append(storage, new_thought), nid + 1,
                    ThoughtResponse("POST", nid, 201, new_thought))

\* a GET that answers with the thought stored last
step8_get_thought_last(storage, nid, thought_id) ==
    LET i == find_thought_by_id(storage, thought_id)
    IN  IF i = 0 THEN Leaves(storage, nid, ErrorResponse("GET", thought_id, 404, "not found"))
        ELSE Leaves(storage, nid, ThoughtResponse("GET", thought_id, 200, storage[Len(storage)]))

\* GET /api/v1/thoughts/<id>
step8_get_thought(storage, nid, thought_id) ==
    LET i == find_thought_by_id(storage, thought_id)
    IN  IF i = 0 THEN Leaves(storage, nid, ErrorResponse("GET", thought_id, 404, "not found"))
        ELSE Leaves(storage, nid, ThoughtResponse("GET", thought_id, 200, storage[i]))

\* a PUT that assigns the text before it has validated the body
step8_update_thought_full_early_write(storage, nid, thought_id, data, now) ==
    LET i == find_thought_by_id(storage, thought_id)
        r == validate_thought_data_step8(data, FALSE)
        texted == IF Has(data, "text") /\ IsStr(data.v.text)
                  THEN Replace(storage, i, WithField(storage[i], "text", strip(data.v.text.v)))
                  ELSE storage
        updated == [storage[i] EXCEPT !.text = strip(data.v.text.v),
                                      !.tags = strip_tags(data.v.tags.v),
                                      !.updated_at = Num(now)]
    IN  IF i = 0 THEN Leaves(storage, nid, ErrorResponse("PUT", thought_id, 404, "not found"))
        ELSE IF ~r.is_valid THEN Leaves(texted, nid, ErrorResponse("PUT", thought_id, 400, r.error_message))
        ELSE Leaves(Replace(storage, i, updated), nid, ThoughtResponse("PUT", thought_id, 200, updated))

\* PUT /api/v1/thoughts/<id>
step8_update_thought_full(storage, nid, thought_id, data, now) ==
    LET i == find_thought_by_id(storage, thought_id)
        r == validate_thought_data_step8(data, FALSE)
        updated == [storage[i] EXCEPT !.text = strip(data.v.text.v),
                                      !.tags = strip_tags(data.v.tags.v),
                                      !.updated_at = Num(now)]
    IN  IF i = 0 THEN Leaves(storage, nid, ErrorResponse("PUT", thought_id, 404, "not found"))
        ELSE IF ~r.is_valid THEN Leaves(storage, nid, ErrorResponse("PUT", thought_id, 400, r.error_message))
        ELSE Leaves(Replace(storage, i, updated), nid, ThoughtResponse("PUT", thought_id, 200, updated))

\* a PATCH that overwrites the fields sent and does not stamp updated_at
patch_fields_without_stamp(thought, data, now) ==
    [thought EXCEPT
        !.text = IF Has(data, "text") THEN strip(data.v.text.v) ELSE @,
        !.tags = IF Has(data, "tags") THEN strip_tags(data.v.tags.v) ELSE @]

\* the thought after "update only provided fields"
patch_fields(thought, data, now) ==
    [thought EXCEPT
        !.text = IF Has(data, "text") THEN strip(data.v.text.v) ELSE @,
        !.tags = IF Has(data, "tags") THEN strip_tags(data.v.tags.v) ELSE @,
        !.updated_at = Num(now)]

\* a PATCH that empties the field the body does not carry
step8_update_thought_partial_replace_all(storage, nid, thought_id, data, now) ==
    LET i == find_thought_by_id(storage, thought_id)
        r == validate_thought_data_step8(data, TRUE)
        updated == [storage[i] EXCEPT
                       !.text = IF Has(data, "text") THEN strip(data.v.text.v) ELSE <<>>,
                       !.tags = IF Has(data, "tags") THEN strip_tags(data.v.tags.v) ELSE <<>>,
                       !.updated_at = Num(now)]
    IN  IF i = 0 THEN Leaves(storage, nid, ErrorResponse("PATCH", thought_id, 404, "not found"))
        ELSE IF ~r.is_valid THEN Leaves(storage, nid, ErrorResponse("PATCH", thought_id, 400, r.error_message))
        ELSE Leaves(Replace(storage, i, updated), nid, ThoughtResponse("PATCH", thought_id, 200, updated))

\* PATCH /api/v1/thoughts/<id>
step8_update_thought_partial(storage, nid, thought_id, data, now) ==
    LET i == find_thought_by_id(storage, thought_id)
        r == validate_thought_data_step8(data, TRUE)
        updated == patch_fields(storage[i], data, now)
    IN  IF i = 0 THEN Leaves(storage, nid, ErrorResponse("PATCH", thought_id, 404, "not found"))
        ELSE IF ~r.is_valid THEN Leaves(storage, nid, ErrorResponse("PATCH", thought_id, 400, r.error_message))
        ELSE Leaves(Replace(storage, i, updated), nid, ThoughtResponse("PATCH", thought_id, 200, updated))

\* DELETE /api/v1/thoughts/<id>
step8_delete_thought(storage, nid, thought_id) ==
    LET i == find_thought_by_id(storage, thought_id)
    IN  IF i = 0 THEN Leaves(storage, nid, ErrorResponse("DELETE", thought_id, 404, "not found"))
        ELSE Leaves(list_remove(storage, storage[i]), nid,
                    ThoughtResponse("DELETE", thought_id, 200, Null))

----------------------------------------------------------------------------
(* steps-5-8-combined-solution.py handlers *)

\* data.get("author", "Anonymous")
author_or_default(data, default) == IF Has(data, "author") THEN data.v.author ELSE default

\* POST /api/v1/thoughts; an exception of the validator is caught and answered 500
combined_create_thought(storage, nid, data, now) ==
    LET r == validate_thought_data_combined(data, FALSE)
        new_thought == [id |-> nid, text |-> strip(data.v.text.v),
                        tags |-> strip_tags(data.v.tags.v),
                        author |-> author_or_default(data, Anonymous),
                        timestamp |-> now, updated_at |-> Null]
    IN  IF r.raised # "None"
        THEN Leaves(storage, nid, ErrorResponse("POST", 0, 500, <<"Internal server error: ", r.raised>>))
        ELSE IF ~r.is_valid THEN Leaves(storage, nid, ErrorResponse("POST", 0, 400, r.error_message))
        ELSE Leaves(Append(storage, new_thought), nid + 1,
                    ThoughtResponse("POST", nid, 201, new_thought))

\* handle_thought, request.method == "GET"
combined_handle_thought_GET(storage, nid, thought_id) ==
    LET i == find_thought_by_id(storage, thought_id)
    IN  IF i = 0 THEN Leaves(storage, nid, ErrorResponse("GET", thought_id, 404, "not found"))
        ELSE Leaves(storage, nid, ThoughtResponse("GET", thought_id, 200, storage[i]))

\* a PUT that takes the thought out of the list and appends the new version
combined_handle_thought_PUT_reappend(storage, nid, thought_id, data, now) ==
    LET i == find_thought_by_id(storage, thought_id)
        r == validate_thought_data_combined(data, FALSE)
        updated == [storage[i] EXCEPT !.text = strip(data.v.text.v),
                                      !.tags = strip_tags(data.v.tags.v),
                                      !.updated_at = Num(now)]
    IN  IF i = 0 THEN Leaves(storage, nid, ErrorResponse("PUT", thought_id, 404, "not found"))
        ELSE IF r.raised # "None"
             THEN Leaves(storage, nid, ErrorResponse("PUT", thought_id, 500, <<"Internal Server Error">>))
        ELSE IF ~r.is_valid THEN Leaves(storage, nid, ErrorResponse("PUT", thought_id, 400, r.error_message))
        ELSE Leaves(Append(list_remove(storage, storage[i]), updated), nid,
                    ThoughtResponse("PUT", thought_id, 200, updated))

\* handle_thought, request.method == "PUT" (no try/except: Flask answers 500)
combined_handle_thought_PUT(storage, nid, thought_id, data, now) ==
    LET i == find_thought_by_id(storage, thought_id)
        r == validate_thought_data_combined(data, FALSE)
        updated == [storage[i] EXCEPT !.text = strip(data.v.text.v),
                                      !.tags = strip_tags(data.v.tags.v),
                                      !.updated_at = Num(now)]
    IN  IF i = 0 THEN Leaves(storage, nid, ErrorResponse("PUT", thought_id, 404, "not found"))
        ELSE IF r.raised # "None"
             THEN Leaves(storage, nid, ErrorResponse("PUT", thought_id, 500, <<"Internal Server Error">>))
        ELSE IF ~r.is_valid THEN Leaves(storage, nid, ErrorResponse("PUT", thought_id, 400, r.error_message))
        ELSE Leaves(Replace(storage, i, updated), nid, ThoughtResponse("PUT", thought_id, 200, updated))

\* handle_thought, request.method == "PATCH"
combined_handle_thought_PATCH(storage, nid, thought_id, data, now) ==
    LET i == find_thought_by_id(storage, thought_id)
        r == validate_thought_data_combined(data, TRUE)
        updated == patch_fields(storage[i], data, now)
    IN  IF i = 0 THEN Leaves(storage, nid, ErrorResponse("PATCH", thought_id, 404, "not found"))
        ELSE IF r.raised # "None"
             THEN Leaves(storage, nid, ErrorResponse("PATCH", thought_id, 500, <<"Internal Server Error">>))
        ELSE IF ~r.is_valid THEN Leaves(storage, nid, ErrorResponse("PATCH", thought_id, 400, r.error_message))
        ELSE Leaves(Replace(storage, i, updated), nid, ThoughtResponse("PATCH", thought_id, 200, updated))

\* handle_thought, request.method == "DELETE"
combined_handle_thought_DELETE(storage, nid, thought_id) ==
    LET i == find_thought_by_id(storage, thought_id)
    IN  IF i = 0 THEN Leaves(storage, nid, ErrorResponse("DELETE", thought_id, 404, "not found"))
        ELSE Leaves(list_remove(storage, storage[i]), nid,
                    ThoughtResponse("DELETE", thought_id, 200, Null))

\* "tag in t['tags']"
has_tag(thought, tag) == \E i \in 1..Len(thought.tags) : thought.tags[i] = tag

\* "for thought in to_delete: thoughts_storage.remove(thought)"
RECURSIVE remove_all(_, _)
remove_all(storage, to_delete) ==
    IF to_delete = <<>> THEN storage
    ELSE remove_all(list_remove(storage, Head(to_delete)), Tail(to_delete))

\* DELETE /api/v1/thoughts/bulk?tag=...; tag = "" stands for a missing parameter
combined_bulk_delete_thoughts(storage, nid, tag) ==
    LET to_delete == SelectSeq(storage, LAMBDA t : has_tag(t, tag))
    IN  IF tag = <<>>
        THEN Leaves(storage, nid, ErrorResponse("DELETE bulk", 0, 400, "Query parameter 'tag' is required"))
        ELSE Leaves(remove_all(storage, to_delete), nid,
                    ThoughtResponse("DELETE bulk", Len(to_delete), 200, Null))

\* a clear-all that resets next_id and keeps the stored thoughts
combined_clear_all_thoughts_keeping(storage, nid) ==
    Leaves(storage, 1, ThoughtResponse("DELETE clear", Len(storage), 200, Null))

\* DELETE /api/v1/thoughts/clear
combined_clear_all_thoughts(storage, nid) ==
    Leaves(<<>>, 1, ThoughtResponse("DELETE clear", Len(storage), 200, Null))

----------------------------------------------------------------------------
(* week-2/solution/app.py and src/app.py handlers *)

\* week-2/solution/app.py POST: Thought(data["text"].strip(), data["tags"])
solution_create_thought(storage, nid, data, now) ==
    LET validation_errors == validate_thought_input(data)
        new_thought == [id |-> nid, text |-> strip(data.v.text.v),
                        timestamp |-> now, tags |-> raw_tags(data.v.tags.v)]
    IN  IF validation_errors # <<>>
        THEN Leaves(storage, nid, ErrorResponse("POST", 0, 400, validation_errors))
        ELSE Leaves(Append(storage, new_thought), nid + 1,
                    ThoughtResponse("POST", nid, 201, new_thought))

\* src/app.py POST: Thought(text=data['text'].strip(), tags=data['tags'], author=...)
app_create_thought(storage, nid, data, now) ==
    LET errors == validate_thought_data_app(data)
        thought == [id |-> nid, text |-> strip(data.v.text.v),
                    tags |-> raw_tags(data.v.tags.v),
                    author |-> author_or_default(data, Anonymous),
                    timestamp |-> now, updated_at |-> Null]
    IN  IF errors # <<>> THEN Leaves(storage, nid, ErrorResponse("POST", 0, 400, errors))
        ELSE Leaves(Append(storage, thought), nid + 1, ThoughtResponse("POST", nid, 201, thought))

\* src/app.py PUT /api/v1/thoughts/<id>
app_update_thought(storage, nid, thought_id, data, now) ==
    LET i == find_thought_by_id(storage, thought_id)
        errors == validate_thought_data_app(data)
        updated == [storage[i] EXCEPT !.text = strip(data.v.text.v),
                                      !.tags = raw_tags(data.v.tags.v),
                                      !.author = author_or_default(data, @),
                                      !.updated_at = Num(now)]
    IN  IF i = 0 THEN Leaves(storage, nid, ErrorResponse("PUT", thought_id, 404, "not found"))
        ELSE IF errors # <<>> THEN Leaves(storage, nid, ErrorResponse("PUT", thought_id, 400, errors))
        ELSE Leaves(Replace(storage, i, updated), nid, ThoughtResponse("PUT", thought_id, 200, updated))

\* src/app.py DELETE /api/v1/thoughts/<id>
app_delete_thought(storage, nid, thought_id) ==
    LET i == find_thought_by_id(storage, thought_id)
    IN  IF i = 0 THEN Leaves(storage, nid, ErrorResponse("DELETE", thought_id, 404, "not found"))
        ELSE Leaves(SubSeq(storage, 1, i - 1) \o SubSeq(storage, i + 1, Len(storage)), nid,
                    ThoughtResponse("DELETE", thought_id, 200, Null))

----------------------------------------------------------------------------
(* SpecMem: requests served one at a time by one of the four week-2 files *)

InitMem ==
    /\ variant \in {"step8", "combined", "solution", "app"}
    /\ \/ variant = "step8" /\ thoughts_storage = <<>> /\ next_id = 1
       \/ variant = "step8" /\ thoughts_storage = step8_sample_storage /\ next_id = 2
       \/ variant = "combined" /\ thoughts_storage = combined_initial_storage /\ next_id = 6
       \/ variant = "solution" /\ thoughts_storage = <<>> /\ next_id = 1
       \/ variant = "solution" /\ thoughts_storage = solution_sample_storage /\ next_id = 4
       \/ variant = "app" /\ thoughts_storage = <<>> /\ next_id = 1
    /\ clock = 0
    /\ response = [op |-> "none", code |-> 0]
    /\ issued_ids = <<>>
    /\ deleted_ids = {}
    /\ IdleVal /\ IdleRepo /\ IdleReqs /\ IdleTxn

\* a handler that stamps the clock ran and left l behind
Served(l) ==
    /\ thoughts_storage' = l.storage
    /\ next_id' = l.next_id
    /\ response' = l.response
    /\ clock' = IF l.response.code \in {200, 201} THEN clock + 1 ELSE clock
    /\ issued_ids' = IF l.response.op = "POST" /\ l.response.code = 201
                     THEN Append(issued_ids, l.response.id) ELSE issued_ids
    /\ UNCHANGED <<variant, deleted_ids, valvars, repovars, reqs, txn>>

\* a handler ran on the request body 'data' and left l behind; the response
\* is kept together with the body it answers
WithBody(resp, data) ==
    [f \in DOMAIN resp \cup {"body"} |-> IF f = "body" THEN data ELSE resp[f]]
ServedCreate(l, data) == Served([l EXCEPT !.response = WithBody(l.response, data)])

\* a handler that does not read the clock (GET, DELETE) ran and left l behind
ServedDelete(l) ==
    /\ thoughts_storage' = l.storage
    /\ next_id' = l.next_id
    /\ response' = l.response
    /\ deleted_ids' = IF variant = "step8" /\ l.response.op = "DELETE" /\ l.response.code = 200
                      THEN deleted_ids \cup {l.response.id} ELSE deleted_ids
    /\ UNCHANGED <<clock, issued_ids, variant, valvars, repovars, reqs, txn>>

Step8Get ==
    /\ variant = "step8"
    /\ \E id \in 1..MaxId : ServedDelete(step8_get_thought(thoughts_storage, next_id, id))

Step8Create ==
    /\ variant = "step8" /\ clock < MaxClock
    /\ \E data \in MemBodies : 
          ServedCreate(step8_create_thought(thoughts_storage, next_id, data, clock), data)

Step8Put ==
    /\ variant = "step8" /\ clock < MaxClock
    /\ \E id \in 1..MaxId, data \in MemBodies :
          ServedCreate(step8_update_thought_full(thoughts_storage, next_id, id, data, clock), data)

Step8Patch ==
    /\ variant = "step8" /\ clock < MaxClock
    /\ \E id \in 1..MaxId, data \in MemBodies :
          ServedCreate(step8_update_thought_partial(thoughts_storage, next_id, id, data, clock), data)

Step8Delete ==
    /\ variant = "step8"
    /\ \E id \in 1..MaxId : ServedDelete(step8_delete_thought(thoughts_storage, next_id, id))

CombinedGet ==
    /\ variant = "combined"
    /\ \E id \in 1..MaxId : ServedDelete(combined_handle_thought_GET(thoughts_storage, next_id, id))

CombinedCreate ==
    /\ variant = "combined" /\ clock < MaxClock
    /\ \E data \in CreateBodies : 
          ServedCreate(combined_create_thought(thoughts_storage, next_id, data, clock), data)

CombinedPut ==
    /\ variant = "combined" /\ clock < MaxClock
    /\ \E id \in 1..MaxId, data \in MemBodies :
          ServedCreate(combined_handle_thought_PUT(thoughts_storage, next_id, id, data, clock), data)

CombinedPatch ==
    /\ variant = "combined" /\ clock < MaxClock
    /\ \E id \in 1..MaxId, data \in MemBodies :
          ServedCreate(combined_handle_thought_PATCH(thoughts_storage, next_id, id, data, clock), data)

CombinedDelete ==
    /\ variant = "combined"
    /\ \E id \in 1..MaxId : ServedDelete(combined_handle_thought_DELETE(thoughts_storage, next_id, id))

BulkTags == {<<>>, <<"f", "l", "a", "s", "k">>, <<"c", "d">>}

CombinedBulkDelete ==
    /\ variant = "combined"
    /\ \E tag \in BulkTags : ServedDelete(combined_bulk_delete_thoughts(thoughts_storage, next_id, tag))

CombinedClear ==
    /\ variant = "combined"
    /\ ServedDelete(combined_clear_all_thoughts(thoughts_storage, next_id))

SolutionCreate ==
    /\ variant = "solution" /\ clock < MaxClock
    /\ \E data \in MemBodies : 
          ServedCreate(solution_create_thought(thoughts_storage, next_id, data, clock), data)

AppCreate ==
    /\ variant = "app" /\ clock < MaxClock
    /\ \E data \in CreateBodies : 
          ServedCreate(app_create_thought(thoughts_storage, next_id, data, clock), data)

AppUpdate ==
    /\ variant = "app" /\ clock < MaxClock
    /\ \E id \in 1..MaxId, data \in MemBodies :
          ServedCreate(app_update_thought(thoughts_storage, next_id, id, data, clock), data)

AppDelete ==
    /\ variant = "app"
    /\ \E id \in 1..MaxId : ServedDelete(app_delete_thought(thoughts_storage, next_id, id))

NextMem ==
    \/ Step8Get \/ Step8Create \/ Step8Put \/ Step8Patch \/ Step8Delete
    \/ CombinedGet \/ CombinedCreate \/ CombinedPut \/ CombinedPatch \/ CombinedDelete
    \/ CombinedBulkDelete \/ CombinedClear
    \/ SolutionCreate
    \/ AppCreate \/ AppUpdate \/ AppDelete

SpecMem == InitMem /\ [][NextMem]_vars

\* C2: in the combined solution a successful create never returns an id that
\* an earlier successful create returned, whatever was deleted or cleared in
\* between.
C2_IdsNeverReused ==
    variant = "combined" =>
        \A i, j \in 1..Len(issued_ids) : i < j => issued_ids[i] # issued_ids[j]

\* C6: a POST, PUT, PATCH or DELETE of step-8 or of the combined solution that
\* is answered 400 or 404 leaves thoughts_storage and next_id as they were.
C6_FailedRequestChangesNothing ==
    [][(variant \in {"step8", "combined"} /\ response'.code \in {400, 404})
          => (thoughts_storage' = thoughts_storage /\ next_id' = next_id)]_vars

\* a PUT on a stored thought was answered 400 for its second tag, after its
\* text had passed validation
C6_Witness ==
    /\ variant = "step8"
    /\ response.op = "PUT" /\ response.code = 400
    /\ response.message = "Each tag must be at least 2 characters long"
    /\ find_thought_by_id(thoughts_storage, response.id) # 0

\* C7: every stored text and every stored tag equals its whitespace-trimmed
\* form, in step-8, the combined solution, week-2/solution/app.py and src/app.py.
C7_StoredTrimmed ==
    \A i \in 1..Len(thoughts_storage) :
        /\ thoughts_storage[i].text = strip(thoughts_storage[i].text)
        /\ \A k \in 1..Len(thoughts_storage[i].tags) :
              thoughts_storage[i].tags[k] = strip(thoughts_storage[i].tags[k])

\* C12: in the combined solution and in src/app.py a create whose body has
\* an 'author' that is not a string is answered 400.
C12_NonStringAuthorRejected ==
    (variant \in {"combined", "app"} /\ response.op = "POST"
       /\ Has(response.body, "author") /\ ~IsStr(response.body.v.author))
    => response.code = 400

\* the stored thought with this id before the step
StoredBefore(id) == thoughts_storage[find_thought_by_id(thoughts_storage, id)]
IsStoredBefore(id) == find_thought_by_id(thoughts_storage, id) # 0
UpdateSucceeds(id) ==
    response'.op \in {"PUT", "PATCH"} /\ response'.code = 200 /\ response'.id = id

\* updated_at of every thought after a step: set by a successful PUT or PATCH
\* of that thought, null on a thought the step created, kept otherwise
UpdatedAtStep ==
    \A k \in 1..Len(thoughts_storage') :
       LET t == thoughts_storage'[k]
       IN  IF UpdateSucceeds(t.id) THEN t.updated_at # Null
           ELSE IF IsStoredBefore(t.id)
                THEN t.updated_at = StoredBefore(t.id).updated_at
                ELSE t.updated_at = Null

\* C14: in step-8 and the combined solution every thought starts with
\* updated_at = null; a thought that a request creates has updated_at = null,
\* the thought a successful PUT or PATCH addresses has a non-null updated_at
\* afterwards, and every other request (a PUT or PATCH answered 400 or 404
\* included) leaves the updated_at of every thought it keeps as it was. So
\* updated_at is null exactly when no PUT or PATCH succeeded since creation.
C14_UpdatedAtTracksUpdates ==
    /\ variant \in {"step8", "combined"}
          => \A k \in 1..Len(thoughts_storage) : thoughts_storage[k].updated_at = Null
    /\ [][(variant \in {"step8", "combined"}) => UpdatedAtStep]_vars

\* a PATCH succeeded on one thought while another was never updated, and a
\* PUT on a stamped thought was answered 400
C14_Witness ==
    /\ variant = "combined" /\ Len(thoughts_storage) = 5
    /\ thoughts_storage[1].updated_at # Null
    /\ thoughts_storage[2].updated_at = Null
    /\ response.op = "PUT" /\ response.code = 400 /\ response.id = 1

PatchSucceeds ==
    variant \in {"step8", "combined"} /\ response'.op = "PATCH" /\ response'.code = 200
\* the thought a request addressed, after the step
StoredAfter(id) == thoughts_storage'[find_thought_by_id(thoughts_storage', id)]
SentText == strip(response'.body.v.text.v)
SentTags == [k \in 1..Len(response'.body.v.tags.v) |-> strip(response'.body.v.tags.v[k].v)]

\* what a successful PATCH leaves in text and tags of the thought it addresses
PatchedFields ==
    /\ StoredAfter(response'.id).text =
          IF Has(response'.body, "text") THEN SentText ELSE StoredBefore(response'.id).text
    /\ StoredAfter(response'.id).tags =
          IF Has(response'.body, "tags") THEN SentTags ELSE StoredBefore(response'.id).tags

\* C15: a successful PATCH of step-8 or of the combined solution leaves in
\* text the trimmed text of the body if the body has 'text' and the previous
\* text otherwise, and in tags the trimmed tags of the body if the body has
\* 'tags' and the previous tags otherwise.
C15_PatchOverwritesOnlySentFields == [][PatchSucceeds => PatchedFields]_vars

\* a PATCH carrying only a padded 'text' succeeded on a thought with tags
C15_Witness ==
    /\ variant = "step8" /\ response.op = "PATCH" /\ response.code = 200
    /\ Has(response.body, "text") /\ ~Has(response.body, "tags")
    /\ response.thought.text = strip(response.body.v.text.v)
    /\ response.thought.text # response.body.v.text.v
    /\ response.thought.tags # <<>>
    /\ \E k \in 1..Len(thoughts_storage) : thoughts_storage[k] = response.thought

UpdateAnswered ==
    variant \in {"step8", "combined"} /\ response'.op \in {"PUT", "PATCH"}

\* position k holds the same thought, or the addressed thought with the id
\* and the creation timestamp it had
KeptAt(k) ==
    IF k = find_thought_by_id(thoughts_storage, response'.id)
    THEN /\ thoughts_storage'[k].id = thoughts_storage[k].id
         /\ thoughts_storage'[k].timestamp = thoughts_storage[k].timestamp
    ELSE thoughts_storage'[k] = thoughts_storage[k]

\* C16: a PUT or PATCH on id i of step-8 or of the combined solution,
\* whatever it answers, leaves next_id and the number of thoughts as they
\* were, every other thought unchanged at its position, and thought i at its
\* position with the id and the creation timestamp it had.
C16_UpdateFrame ==
    [][UpdateAnswered =>
          /\ next_id' = next_id
          /\ Len(thoughts_storage') = Len(thoughts_storage)
          /\ \A k \in 1..Len(thoughts_storage) : KeptAt(k)]_vars

\* a PUT succeeded on the second of the five thoughts of the combined solution
C16_Witness ==
    /\ variant = "combined" /\ response.op = "PUT" /\ response.code = 200
    /\ response.id = 2 /\ Len(thoughts_storage) = 5
    /\ thoughts_storage[2] = response.thought
    /\ thoughts_storage[2].updated_at # Null /\ thoughts_storage[2].timestamp = -4
    /\ thoughts_storage[3] = combined_initial_storage[3]

GetAnswered == variant \in {"step8", "combined"} /\ response'.op = "GET"
CreateSucceeds ==
    variant \in {"step8", "combined"} /\ response'.op = "POST" /\ response'.code = 201
\* the request answered before this one returned the thought with this id
JustReturned(id) ==
    /\ \/ response.op = "POST" /\ response.code = 201
       \/ response.op = "GET" /\ response.code = 200
    /\ response.id = id

\* C17: in step-8 and the combined solution a successful create returns the
\* thought it stored; a get leaves thoughts_storage and next_id as they were
\* and, answered 200, returns the stored thought with that id; and a get that
\* directly follows a successful create or get of the same id is answered
\* 200 with a record equal to the one that request returned.
C17_CreateGetRoundTrip ==
    [][/\ CreateSucceeds => response'.thought = StoredAfter(response'.id)
       /\ GetAnswered =>
            /\ thoughts_storage' = thoughts_storage /\ next_id' = next_id
            /\ response'.code = 200 => response'.thought = StoredBefore(response'.id)
            /\ JustReturned(response'.id) =>
                  response'.code = 200 /\ response'.thought = response.thought]_vars

\* the first thought of an empty step-8 store was created and then read
C17_Witness ==
    /\ variant = "step8" /\ issued_ids = <<1>> /\ clock = 1
    /\ response.op = "GET" /\ response.code = 200 /\ response.id = 1
    /\ thoughts_storage = <<response.thought>>
    /\ response.thought.updated_at = Null

\* the Python exception classes whose text a 500 answer may carry
ExceptionTexts == {"TypeError"}

\* C20: a 500 answer of step-8, of the combined solution or of src/app.py
\* carries a message without any text of the exception that caused it.
C20_InternalErrorIsGeneric ==
    (variant \in {"step8", "combined", "app"} /\ response.code = 500)
    => \A i \in 1..Len(response.message) : response.message[i] \notin ExceptionTexts







----------------------------------------------------------------------------
(* Week 3: exception classes and the context managers that convert them *)

\* the custom classes of db.py / exceptions.py; each derives from DatabaseError
CustomExceptions ==
    {"DatabaseError", "ConnectionError", "ValidationError", "NotFoundError",
     "DuplicateError", "TransactionError"}

\* errors of the drivers: psycopg2.Error and its subclass, SQLAlchemy's
\* OperationalError
DriverErrors == {"psycopg2.Error", "psycopg2.OperationalError"}

\* isinstance(exc, cls) for an exception that was raised ("None": none was)
IsInstance(exc, cls) ==
    /\ exc # "None"
    /\ \/ cls = "Exception"
       \/ exc = cls
       \/ cls = "DatabaseError" /\ exc \in CustomExceptions
       \/ cls = "psycopg2.Error" /\ exc \in DriverErrors

\* ORM DatabaseManager.get_session: what leaves the with-block when its body
\* raised exc; the session commits only when the body raised nothing
get_session(exc) ==
    IF exc = "None" THEN [commit |-> TRUE, rollback |-> FALSE, raised |-> "None"]
    ELSE IF IsInstance(exc, "OperationalError")
         THEN [commit |-> FALSE, rollback |-> TRUE, raised |-> "ConnectionError"]
    ELSE [commit |-> FALSE, rollback |-> TRUE, raised |-> "DatabaseError"]

\* raw DatabaseManager.get_connection: the same for a psycopg2 connection;
\* only psycopg2.Error is caught, the connection is closed in every case
get_connection(exc) ==
    IF exc = "None" THEN [commit |-> TRUE, rollback |-> FALSE, raised |-> "None"]
    ELSE IF IsInstance(exc, "psycopg2.Error")
         THEN [commit |-> FALSE, rollback |-> TRUE, raised |-> "DatabaseError"]
    ELSE [commit |-> FALSE, rollback |-> FALSE, raised |-> exc]

\* the "except psycopg2.Error" clause around every with-block of db.py
execute_except(exc) ==
    IF IsInstance(exc, "psycopg2.Error") THEN "DatabaseError" ELSE exc

----------------------------------------------------------------------------
(* Week 3: validation of a candidate *)

MinRepoTextLen == 3
MaxRepoTextChars == 500
MinImportance == 1
MaxImportance == 10
DefaultImportance == 5
MaxCategoryChars == 50
MaxBulk == 100

Personal == <<"p", "e", "r", "s", "o", "n", "a", "l">>
Work == <<"w", "o", "r", "k">>
Random == <<"r", "a", "n", "d", "o", "m">>
Inspiration == <<"i", "n", "s", "p", "i", "r", "a", "t", "i", "o", "n">>
Todo == <<"t", "o", "d", "o">>
valid_categories == {Personal, Work, Random, Inspiration, Todo}

\* Python truthiness of a JSON value
Truthy(x) ==
    CASE x.t = "str"  -> Len(x.v) > 0
      [] x.t = "list" -> Len(x.v) > 0
      [] x.t = "int"  -> x.v # 0
      [] OTHER        -> FALSE

\* data.get(key, default)
Get(data, key, default) == IF Has(data, key) THEN data.v[key] ELSE default

\* raw repository _validate_thought(data): the list 'errors'
\* (ValidationError is raised when it is not empty)
validate_thought(data) ==
    (IF ~Truthy(Get(data, "text", Null)) THEN <<"Text is required">> ELSE <<>>)
    \o
    (IF ~Has(data, "text") THEN <<>>
     ELSE IF ~IsStr(data.v.text) THEN <<"Text must be a string">>
     ELSE IF Len(strip(data.v.text.v)) < MinRepoTextLen
          THEN <<"Text must be at least 3 characters">>
     ELSE IF Len(data.v.text.v) > MaxRepoTextChars
          THEN <<"Text must be no more than 500 characters">>
     ELSE <<>>)
    \o
    (IF Has(data, "category") /\ Truthy(data.v.category)
        /\ ~(IsStr(data.v.category) /\ data.v.category.v \in valid_categories)
     THEN <<"Category must be one of">> ELSE <<>>)
    \o
    (IF ~(Has(data, "importance") /\ data.v.importance # Null) THEN <<>>
     ELSE IF ~IsInt(data.v.importance) THEN <<"Importance must be an integer">>
     ELSE IF ~(MinImportance <= data.v.importance.v
               /\ data.v.importance.v <= MaxImportance)
          THEN <<"Importance must be between 1 and 10">>
     ELSE <<>>)

\* ORM Thought.from_dict(data): the message of the ValueError, "None" if the
\* instance is built
from_dict(data) ==
    LET importance == Get(data, "importance", Num(DefaultImportance))
        category   == Get(data, "category", Str(Random))
    IN  IF ~Truthy(Get(data, "text", Null)) THEN "Text field is required"
        ELSE IF ~IsInt(importance) \/ importance.v < MinImportance
                \/ importance.v > MaxImportance
             THEN "Importance must be an integer between 1 and 10"
        ELSE IF ~IsStr(category) \/ Len(category.v) > MaxCategoryChars
             THEN "Category must be a string with max 50 characters"
        ELSE "None"

\* ORM Thought.update_from_dict(data): the message of the ValueError
update_from_dict(data) ==
    IF Has(data, "text") /\ ~Truthy(data.v.text) THEN "Text field cannot be empty"
    ELSE IF Has(data, "category")
            /\ (~IsStr(data.v.category) \/ Len(data.v.category.v) > MaxCategoryChars)
         THEN "Category must be a string with max 50 characters"
    ELSE IF Has(data, "importance")
            /\ (~IsInt(data.v.importance) \/ data.v.importance.v < MinImportance
                \/ data.v.importance.v > MaxImportance)
         THEN "Importance must be an integer between 1 and 10"
    ELSE "None"

----------------------------------------------------------------------------
(* Week 3: the thoughts table *)

\* INSERT INTO thoughts (text, category, importance): the row the table keeps
NewRow(id, now, text, category, importance) ==
    [id |-> id, text |-> text, category |-> category, importance |-> importance,
     created_at |-> now, updated_at |-> now]

\* SELECT * FROM thoughts WHERE id = %s
Select(tbl, id) == {row \in tbl : row.id = id}

RowOf(tbl, id) == CHOOSE row \in tbl : row.id = id

\* what a repository call hands back: the exception it raised ("None": it
\* returned), the message, the position the message names (0: none), the
\* committed table, the sequence and the ids of the rows it inserted
Ret(exc, message, position, tbl, seq, inserted) ==
    [exc |-> exc, message |-> message, position |-> position,
     table |-> tbl, id_seq |-> seq, inserted |-> inserted]

\* the rows INSERTed for a list of candidates, ids from seq on
InsertAll(list, seq, now) ==
    {NewRow(seq + i - 1, now, list[i].v.text.v,
            Get(list[i], "category", Str(Random)).v,
            Get(list[i], "importance", Num(DefaultImportance)).v) : i \in 1..Len(list)}

----------------------------------------------------------------------------
(* Week 3: raw-SQL ThoughtRepository *)

raw_get_by_id(tbl, seq, id) ==
    IF Select(tbl, id) = {}
    THEN Ret("NotFoundError", "Thought with ID not found", 0, tbl, seq, <<>>)
    ELSE Ret("None", "None", 0, tbl, seq, <<>>)

raw_create(tbl, seq, now, thought_data) ==
    IF validate_thought(thought_data) # <<>>
    THEN Ret("ValidationError", validate_thought(thought_data)[1], 0, tbl, seq, <<>>)
    ELSE Ret("None", "None", 0, tbl \cup InsertAll(<<thought_data>>, seq, now),
             seq + 1, <<seq>>)

\* a create_bulk that validates each candidate just before inserting it
raw_create_bulk_validate_while_inserting(tbl, seq, now, thoughts_list) ==
    LET bad == {i \in 1..Len(thoughts_list) : validate_thought(thoughts_list[i]) # <<>>}
        n   == IF bad = {} THEN Len(thoughts_list) ELSE SetMin(bad) - 1
        ins == SubSeq(thoughts_list, 1, n)
    IN  IF Len(thoughts_list) = 0
        THEN Ret("ValidationError", "Thoughts list cannot be empty", 0, tbl, seq, <<>>)
        ELSE IF Len(thoughts_list) > MaxBulk
        THEN Ret("ValidationError", "Cannot create more than 100 thoughts at once",
                 0, tbl, seq, <<>>)
        ELSE Ret(IF bad = {} THEN "None" ELSE "ValidationError",
                 IF bad = {} THEN "None" ELSE "Validation failed for thought",
                 IF bad = {} THEN 0 ELSE SetMin(bad),
                 tbl \cup InsertAll(ins, seq, now), seq + n,
                 [i \in 1..n |-> seq + i - 1])

\* create_bulk: size checks, then every candidate is validated, then all the
\* INSERTs run in one execute_transaction
raw_create_bulk(tbl, seq, now, thoughts_list) ==
    LET bad == {i \in 1..Len(thoughts_list) : validate_thought(thoughts_list[i]) # <<>>}
        n   == Len(thoughts_list)
    IN  IF n = 0
        THEN Ret("ValidationError", "Thoughts list cannot be empty", 0, tbl, seq, <<>>)
        ELSE IF n > MaxBulk
        THEN Ret("ValidationError", "Cannot create more than 100 thoughts at once",
                 0, tbl, seq, <<>>)
        ELSE IF bad # {}
        THEN Ret("ValidationError", "Validation failed for thought", SetMin(bad),
                 tbl, seq, <<>>)
        ELSE Ret("None", "None", 0, tbl \cup InsertAll(thoughts_list, seq, now),
                 seq + n, [i \in 1..n |-> seq + i - 1])

\* update after its get_by_id returned 'existing': validation, then
\* UPDATE ... WHERE id = %s RETURNING * in a connection of its own
raw_update_write(tbl, seq, now, id, thought_data, existing) ==
    IF validate_thought(thought_data) # <<>>
    THEN Ret("ValidationError", validate_thought(thought_data)[1], 0, tbl, seq, <<>>)
    ELSE IF Select(tbl, id) = {}
    THEN Ret("DatabaseError", "Failed to update thought", 0, tbl, seq, <<>>)
    ELSE Ret("None", "None", 0,
             (tbl \ Select(tbl, id)) \cup
               {[RowOf(tbl, id) EXCEPT
                   !.text = thought_data.v.text.v,
                   !.category = Get(thought_data, "category", Str(existing.category)).v,
                   !.importance = Get(thought_data, "importance",
                                      Num(existing.importance)).v,
                   !.updated_at = now]},
             seq, <<>>)

\* delete after its get_by_id returned: DELETE ... WHERE id = %s in a
\* connection of its own, rows_affected == 0 raises
raw_delete_write(tbl, seq, id) ==
    IF Cardinality(Select(tbl, id)) = 0
    THEN Ret("DatabaseError", "Failed to delete thought", 0, tbl, seq, <<>>)
    ELSE Ret("None", "None", 0, tbl \ Select(tbl, id), seq, <<>>)

\* update / delete served without another request in between
raw_update(tbl, seq, now, id, thought_data) ==
    IF raw_get_by_id(tbl, seq, id).exc # "None" THEN raw_get_by_id(tbl, seq, id)
    ELSE raw_update_write(tbl, seq, now, id, thought_data, RowOf(tbl, id))

raw_delete(tbl, seq, id) ==
    IF raw_get_by_id(tbl, seq, id).exc # "None" THEN raw_get_by_id(tbl, seq, id)
    ELSE raw_delete_write(tbl, seq, id)

----------------------------------------------------------------------------
(* Week 3: ORM ThoughtRepository *)

\* get_by_id: the with-block raises NotFoundError, get_session converts what
\* leaves it, then "except NotFoundError: raise / except Exception"
orm_get_by_id(tbl, seq, id) ==
    LET body == IF Select(tbl, id) = {} THEN "NotFoundError" ELSE "None"
        left == get_session(body).raised
    IN  IF left = "None" THEN Ret("None", "None", 0, tbl, seq, <<>>)
        ELSE IF IsInstance(left, "NotFoundError")
             THEN Ret(left, "Thought with ID not found", 0, tbl, seq, <<>>)
        ELSE Ret("DatabaseError", "Failed to retrieve thought", 0, tbl, seq, <<>>)

\* create: from_dict outside the session, "except ValueError" converts
orm_create(tbl, seq, now, thought_data) ==
    IF from_dict(thought_data) # "None"
    THEN Ret("ValidationError", from_dict(thought_data), 0, tbl, seq, <<>>)
    ELSE IF get_session("None").commit
    THEN Ret("None", "None", 0, tbl \cup InsertAll(<<thought_data>>, seq, now),
             seq + 1, <<seq>>)
    ELSE Ret("DatabaseError", "Failed to create thought", 0, tbl, seq, <<>>)

\* create_bulk: every candidate goes through from_dict before the
\* transaction is opened; an empty list returns []
orm_create_bulk(tbl, seq, now, thoughts_data) ==
    LET bad == {i \in 1..Len(thoughts_data) : from_dict(thoughts_data[i]) # "None"}
        n   == Len(thoughts_data)
    IN  IF n = 0 THEN Ret("None", "None", 0, tbl, seq, <<>>)
        ELSE IF bad # {}
        THEN Ret("ValidationError", "Invalid data for thought", SetMin(bad),
                 tbl, seq, <<>>)
        ELSE IF get_session("None").commit
        THEN Ret("None", "None", 0, tbl \cup InsertAll(thoughts_data, seq, now),
                 seq + n, [i \in 1..n |-> seq + i - 1])
        ELSE Ret("DatabaseError", "Failed to create thoughts", 0, tbl, seq, <<>>)

\* the row after update_from_dict; the UPDATE (and onupdate of updated_at) is
\* only emitted when an attribute changed
orm_updated_row(row, now, update_data) ==
    LET new == [row EXCEPT
                  !.text = Get(update_data, "text", Str(row.text)).v,
                  !.category = Get(update_data, "category", Str(row.category)).v,
                  !.importance = Get(update_data, "importance", Num(row.importance)).v]
    IN  IF new = row THEN row ELSE [new EXCEPT !.updated_at = now]

\* update: lookup and update_from_dict both inside the with-block
orm_update(tbl, seq, now, id, update_data) ==
    LET body == IF Select(tbl, id) = {} THEN "NotFoundError"
                ELSE IF update_from_dict(update_data) # "None" THEN "ValueError"
                ELSE "None"
        left == get_session(body)
    IN  IF left.raised = "None"
        THEN Ret("None", "None", 0,
                 IF left.commit
                 THEN (tbl \ Select(tbl, id))
                      \cup {orm_updated_row(RowOf(tbl, id), now, update_data)}
                 ELSE tbl,
                 seq, <<>>)
        ELSE IF IsInstance(left.raised, "ValueError")
             THEN Ret("ValidationError", update_from_dict(update_data), 0, tbl, seq, <<>>)
        ELSE IF IsInstance(left.raised, "NotFoundError")
             THEN Ret(left.raised, "Thought with ID not found", 0, tbl, seq, <<>>)
        ELSE Ret("DatabaseError", "Failed to update thought", 0, tbl, seq, <<>>)

\* delete
orm_delete(tbl, seq, id) ==
    LET body == IF Select(tbl, id) = {} THEN "NotFoundError" ELSE "None"
        left == get_session(body)
    IN  IF left.raised = "None"
        THEN Ret("None", "None", 0,
                 IF left.commit THEN tbl \ Select(tbl, id) ELSE tbl, seq, <<>>)
        ELSE IF IsInstance(left.raised, "NotFoundError")
             THEN Ret(left.raised, "Thought with ID not found", 0, tbl, seq, <<>>)
        ELSE Ret("DatabaseError", "Failed to delete thought", 0, tbl, seq, <<>>)

\* the except clauses of an app.py handler, in their order, as
\* <<class, status>>; the raw app has no route for create and update
GetClauses == <<<<"NotFoundError", 404>>, <<"DatabaseError", 500>>, <<"Exception", 500>>>>
PostClauses == <<<<"ValidationError", 400>>, <<"DatabaseError", 500>>, <<"Exception", 500>>>>
PutClauses == <<<<"NotFoundError", 404>>, <<"ValidationError", 400>>,
                <<"DatabaseError", 500>>, <<"Exception", 500>>>>
DeleteClauses == GetClauses

\* the status a handler answers: 'success' when the repository returned,
\* else the status of the first clause that matches the exception
handler_status(exc, clauses, success) ==
    IF exc = "None" THEN success
    ELSE clauses[SetMin({i \in 1..Len(clauses) : IsInstance(exc, clauses[i][1])})][2]

----------------------------------------------------------------------------
(* Week 3: get_all and count of the two repositories *)

to_lower ==
    ("A" :> "a") @@ ("B" :> "b") @@ ("C" :> "c") @@ ("D" :> "d") @@ ("E" :> "e") @@
    ("F" :> "f") @@ ("G" :> "g") @@ ("H" :> "h") @@ ("I" :> "i") @@ ("J" :> "j") @@
    ("K" :> "k") @@ ("L" :> "l") @@ ("M" :> "m") @@ ("N" :> "n") @@ ("O" :> "o") @@
    ("P" :> "p") @@ ("Q" :> "q") @@ ("R" :> "r") @@ ("S" :> "s") @@ ("T" :> "t") @@
    ("U" :> "u") @@ ("V" :> "v") @@ ("W" :> "w") @@ ("X" :> "x") @@ ("Y" :> "y") @@
    ("Z" :> "z")
lower(s) == [i \in 1..Len(s) |-> IF s[i] \in DOMAIN to_lower THEN to_lower[s[i]] ELSE s[i]]
Digits == {"0", "1", "2", "3", "4", "5", "6", "7", "8", "9"}
\* the characters \w matches, among those the model sends
WordChars == DOMAIN to_lower \cup {to_lower[c] : c \in DOMAIN to_lower} \cup Digits \cup {"_"}

\* text ILIKE '%term%', for a term without the wildcards % and _
ilike(text, term) ==
    \E i \in 0..(Len(text) - Len(term)) :
        \A k \in 1..Len(term) : lower(text)[i + k] = lower(term)[k]

\* raw-SQL _sanitize_search_term: re.sub(r'[;\'\"\\]', '', term).strip()[:100]
raw_sanitize_search_term(term) ==
    IF ~IsStr(term) THEN <<>>
    ELSE LET kept == strip(SelectSeq(term.v, LAMBDA c : c \notin {";", "'", "\"", "\\"}))
         IN  SubSeq(kept, 1, IF Len(kept) < 100 THEN Len(kept) ELSE 100)

\* ORM _sanitize_search_term: re.sub(r'[^\w\s\-_]', '', term.strip())[:50]
orm_sanitize_search_term(term) ==
    IF ~IsStr(term) \/ ~Truthy(term) THEN <<>>
    ELSE LET kept == SelectSeq(strip(term.v),
                               LAMBDA c : c \in WordChars \cup Whitespace \cup {"-"})
         IN  SubSeq(kept, 1, IF Len(kept) < 50 THEN Len(kept) ELSE 50)

\* the cleaned search terms of filters['tags'] that are not empty
tag_conditions(b, filters) ==
    LET tags == filters.v.tags.v
        clean(i) == IF b = "raw" THEN raw_sanitize_search_term(tags[i])
                    ELSE orm_sanitize_search_term(tags[i])
    IN  {clean(i) : i \in {k \in 1..Len(tags) : clean(k) # <<>>}}

\* the WHERE clause count builds (raw 190-211, ORM _apply_filters): category,
\* importance_min, importance_max, and any of the tags found in the text
apply_filters(b, tbl, filters) ==
    {row \in tbl :
        /\ (Has(filters, "category") /\ Truthy(filters.v.category))
              => row.category = filters.v.category.v
        /\ (Has(filters, "importance_min") /\ filters.v.importance_min # Null)
              => row.importance >= filters.v.importance_min.v
        /\ (Has(filters, "importance_max") /\ filters.v.importance_max # Null)
              => row.importance <= filters.v.importance_max.v
        /\ (Has(filters, "tags") /\ Truthy(filters.v.tags)
                /\ tag_conditions(b, filters) # {})
              => \E term \in tag_conditions(b, filters) : ilike(row.text, term)}

\* ORDER BY created_at DESC LIMIT n: every set of n rows (all of them if
\* fewer) that no row left out is newer than; rows of one bulk insert tie
newest(rows, n) ==
    {S \in SUBSET rows :
        /\ Cardinality(S) = IF n < Cardinality(rows) THEN n ELSE Cardinality(rows)
        /\ \A a \in S, c \in rows \ S : a.created_at >= c.created_at}

\* get_all of either repository: "if filters: pass", then ORDER BY created_at
\* DESC LIMIT limit OFFSET offset; the sets of rows it may return
get_all(b, tbl, filters, limit, offset) ==
    UNION {{T \ O : O \in newest(T, offset)} : T \in newest(tbl, offset + limit)}

\* count of either repository: SELECT COUNT(*) ... WHERE the filters
count(b, tbl, filters) ==
    IF Falsy(filters) THEN Cardinality(tbl)
    ELSE Cardinality(apply_filters(b, tbl, filters))

----------------------------------------------------------------------------
(* Week 3: the ORM health check *)

\* get_database_manager: the first call builds the manager (create_engine
\* does not connect) and runs create_tables, which wraps whatever the
\* connection raises; what the call raises
get_database_manager(first_use, fault) ==
    IF first_use /\ fault # "None" THEN "DatabaseError" ELSE "None"

\* DatabaseManager.test_connection: three SELECTs inside 'with
\* self.get_session()', then 'except OperationalError' and 'except
\* Exception' around the with-block; what the call raises
test_connection(fault) ==
    LET leaving == get_session(fault).raised
    IN  IF leaving = "None" THEN "None"
        ELSE IF IsInstance(leaving, "OperationalError") THEN "ConnectionError"
        ELSE "DatabaseError"

\* test_database_connection: get_database_manager().test_connection()
test_database_connection(first_use, fault) ==
    IF get_database_manager(first_use, fault) # "None"
    THEN get_database_manager(first_use, fault)
    ELSE test_connection(fault)

\* the except clauses of health_check
HealthClauses == <<<<"ConnectionError", 503>>, <<"Exception", 500>>>>
api_status(code) ==
    CASE code = 200 -> "healthy" [] code = 503 -> "degraded" [] OTHER -> "unhealthy"



----------------------------------------------------------------------------
(* SpecRepo: calls of one repository, one after the other *)

MaxRepoTextLen == 501   \* longest 'text' handed to a repository
MaxWrites == 2          \* inserting or updating calls per run
MaxBulkLen == 2         \* longest list of create_bulk, oversize lists apart
MaxRowId == 3           \* largest id a call addresses

RepoA(n) == Rep("a", n)
Padded(s) == <<" ">> \o s \o <<"\n">>

\* texts on both sides of each length rule, bare and padded with whitespace
RepoTexts ==
    {RepoA(n) : n \in {0, MinRepoTextLen - 1, MinRepoTextLen, MinTextLen - 1,
                       MinTextLen, MaxTextChars, MaxTextChars + 1, MaxRepoTextChars}
                      \cup ((MaxRepoTextChars + 1)..MaxRepoTextLen)}
    \cup {Padded(RepoA(n)) : n \in {0, MinTextLen - 1, MaxTextChars,
                                    MaxRepoTextChars - 1}}

Bogus == <<"b", "o", "g", "u", "s">>
Abcde == <<"a", "b", "c", "d", "e">>

CreateInputs ==
    {Dict([text |-> Str(s)]) : s \in RepoTexts}
    \cup {Dict([category |-> Str(Work)]),
          Dict([text |-> Null]),
          Dict([text |-> Str(Abcde), importance |-> Num(MaxImportance + 1)]),
          Dict([text |-> Str(Abcde), category |-> Str(Bogus)]),
          Dict([text |-> Str(Abcde), category |-> Str(Work), importance |-> Num(7)])}

UpdateInputs ==
    {Dict([text |-> Str(World)]),
     Dict([text |-> Str(Abcde), category |-> Str(Todo), importance |-> Num(1)]),
     Dict([category |-> Str(Work)]),
     Dict([text |-> Str(<<>>)]),
     Dict([text |-> Str(Abcde), importance |-> Num(MinImportance - 1)])}

BulkCandidates ==
    {Dict([text |-> Str(Abcde)]),
     Dict([category |-> Str(Work)]),
     Dict([text |-> Str(Abcde), importance |-> Num(MaxImportance + 1)]),
     Dict([text |-> Str(Abcde), category |-> Str(Bogus)])}

\* one candidate more than create_bulk takes, all valid or the last one not
OversizeLists ==
    {[i \in 1..(MaxBulk + 1) |-> Dict([text |-> Str(Abcde)])],
     [i \in 1..(MaxBulk + 1) |-> IF i <= MaxBulk THEN Dict([text |-> Str(Abcde)])
                                 ELSE Dict([category |-> Str(Work)])]}

\* the ORM app answers 400 for more than 100 candidates before it calls the
\* repository; the raw app hands every non-empty list to create_bulk
BulkLists(b) ==
    UNION {[1..n -> BulkCandidates] : n \in 0..MaxBulkLen}
    \cup (IF b = "raw" THEN OversizeLists ELSE {})

InitRepo ==
    /\ backend \in {"raw", "orm"}
    /\ table = {} /\ id_seq = 1 /\ db_clock = 0
    /\ outcome = [op |-> "none"]
    /\ IdleVal /\ IdleMem /\ IdleReqs /\ IdleTxn

\* the state after a repository call that returned r, and what the app's
\* handler (clauses, success) answers for it
Answered(op, id, data, r, clauses, success) ==
    /\ outcome' = [op |-> op, id |-> id, data |-> data,
                   existed |-> (Select(table, id) # {}),
                   exc |-> r.exc, message |-> r.message, position |-> r.position,
                   inserted |-> r.inserted,
                   code |-> IF clauses = <<>> THEN 0
                            ELSE handler_status(r.exc, clauses, success)]
    /\ table' = r.table
    /\ id_seq' = r.id_seq
    /\ db_clock' = IF r.table \subseteq table THEN db_clock ELSE db_clock + 1
    /\ deleted_ids' = IF op = "delete" /\ r.exc = "None" THEN deleted_ids \cup {id}
                      ELSE deleted_ids
    /\ UNCHANGED <<backend, valvars, memvars, reqs, txn>>

RepoGetById ==
    \E id \in 1..MaxRowId :
        Answered("get_by_id", id, NoBody,
                 IF backend = "raw" THEN raw_get_by_id(table, id_seq, id)
                 ELSE orm_get_by_id(table, id_seq, id),
                 GetClauses, 200)

RepoCreate ==
    /\ db_clock < MaxWrites
    /\ \E data \in CreateInputs :
        Answered("create", 0, data,
                 IF backend = "raw" THEN raw_create(table, id_seq, db_clock, data)
                 ELSE orm_create(table, id_seq, db_clock, data),
                 IF backend = "raw" THEN <<>> ELSE PostClauses, 201)

RepoCreateBulk ==
    /\ db_clock < MaxWrites
    /\ \E list \in BulkLists(backend) :
        Answered("create_bulk", 0, Lst(list),
                 IF backend = "raw" THEN raw_create_bulk(table, id_seq, db_clock, list)
                 ELSE orm_create_bulk(table, id_seq, db_clock, list),
                 PostClauses, 201)

RepoUpdate ==
    /\ db_clock < MaxWrites
    /\ \E id \in 1..MaxRowId, data \in UpdateInputs :
        Answered("update", id, data,
                 IF backend = "raw" THEN raw_update(table, id_seq, db_clock, id, data)
                 ELSE orm_update(table, id_seq, db_clock, id, data),
                 IF backend = "raw" THEN <<>> ELSE PutClauses, 200)

RepoDelete ==
    \E id \in 1..MaxRowId :
        Answered("delete", id, NoBody,
                 IF backend = "raw" THEN raw_delete(table, id_seq, id)
                 ELSE orm_delete(table, id_seq, id),
                 DeleteClauses, 200)

\* filters handed to get_all and count
LargeLimit == 100
ListFilters ==
    {NoBody,
     Dict([category |-> Str(Work)]),
     Dict([importance_min |-> Num(6)]),
     Dict([importance_max |-> Num(5), category |-> Str(<<>>)]),
     Dict([tags |-> Lst(<<Str(<<" ", "B", "C", "D", ";">>), Str(<<"'">>)>>)])}

\* the state after a repository call that only reads
ReadBack(op, filters, limit, rows, total) ==
    /\ outcome' = [op |-> op, id |-> 0, data |-> filters, existed |-> FALSE,
                   exc |-> "None", message |-> "None", position |-> 0,
                   inserted |-> {}, code |-> 0,
                   limit |-> limit, rows |-> rows, total |-> total]
    /\ UNCHANGED <<table, id_seq, db_clock, deleted_ids, backend, valvars, memvars, reqs, txn>>

RepoGetAll ==
    \E filters \in ListFilters, page \in {<<LargeLimit, 0>>, <<1, 1>>} :
        \E rows \in get_all(backend, table, filters, page[1], page[2]) :
            ReadBack("get_all", filters, page[1], rows, 0)

RepoCount ==
    \E filters \in ListFilters :
        ReadBack("count", filters, 0, {}, count(backend, table, filters))

\* GET /api/v1/health-check of the ORM app, as the first use of the database
\* manager or a later one, with the database reachable or not
RepoHealthCheck ==
    /\ backend = "orm"
    /\ \E first_use \in BOOLEAN, fault \in {"None", "OperationalError"} :
        Answered("health_check", 0, Dict([first_use |-> first_use, fault |-> fault]),
                 Ret(test_database_connection(first_use, fault), "None", 0,
                     table, id_seq, {}),
                 HealthClauses, 200)

NextRepo ==
    \/ RepoGetById \/ RepoCreate \/ RepoCreateBulk \/ RepoUpdate \/ RepoDelete
    \/ RepoHealthCheck

SpecRepo == InitRepo /\ [][NextRepo]_vars

\* C1: in the ORM backend get_by_id, update and delete with an id that
\* matches no stored thought raise NotFoundError, and the ORM app answers 404.
C1_AbsentIdIsNotFound ==
    (backend = "orm" /\ outcome.op \in {"get_by_id", "update", "delete"}
       /\ ~outcome.existed)
    => (outcome.exc = "NotFoundError" /\ outcome.code = 404)

\* the candidates of a create_bulk list that its backend's validation rejects
Failing(b, list) ==
    {i \in 1..Len(list) : IF b = "raw" THEN validate_thought(list[i]) # <<>>
                          ELSE from_dict(list[i]) # "None"}

CreatedTextLen == Len(strip(outcome.data.v.text.v))

\* C8: create of either backend raises ValidationError and inserts nothing
\* when the candidate's text has a trimmed length below 5 or above 280.
C8_CreateRejectsTextLength ==
    (/\ outcome.op = "create"
     /\ Has(outcome.data, "text") /\ IsStr(outcome.data.v.text)
     /\ (CreatedTextLen < MinTextLen \/ CreatedTextLen > MaxTextChars))
    => (outcome.exc = "ValidationError" /\ outcome.inserted = <<>>)

\* SpecList: the table filled and emptied by create and delete, and read by
\* get_all and count
NextList == RepoCreate \/ RepoDelete \/ RepoGetAll \/ RepoCount

SpecList == InitRepo /\ [][NextList]_vars

\* C18: for every set of filters, count(filters) of a week-3 repository is
\* the number of thoughts get_all(filters) of the same repository returns on
\* the same table when the limit does not cut the result.
C18_CountMatchesList ==
    backend \in {"raw", "orm"} =>
        \A filters \in ListFilters :
            \A rows \in get_all(backend, table, filters, LargeLimit, 0) :
                count(backend, table, filters) = Cardinality(rows)

\* C19: when the database is unreachable, test_connection of the ORM backend
\* raises ConnectionError and GET /api/v1/health-check answers 503 with
\* api_status 'degraded'.
C19_UnreachableIsDegraded ==
    (backend = "orm" /\ outcome.op = "health_check"
        /\ outcome.data.v.fault = "OperationalError")
    => /\ outcome.exc = "ConnectionError"
       /\ outcome.code = 503
       /\ api_status(outcome.code) = "degraded"



----------------------------------------------------------------------------
(* SpecRace: raw-SQL update and delete requests served by concurrent threads; *)
(* get_by_id and the write each run in a connection of their own             *)

MaxRequests == 2        \* requests in flight

\* the rows stored before the requests arrive
StoredRows ==
    InsertAll(<<Dict([text |-> Str(Abcde)]),
                Dict([text |-> Str(World), category |-> Str(Work),
                      importance |-> Num(7)])>>, 1, 0)

NoRow == [id |-> 0]

RaceInputs ==
    {Dict([text |-> Str(Abcde), importance |-> Num(MaxImportance)]),
     Dict([text |-> Str(World), category |-> Str(Todo)])}

Requests ==
    {[op |-> "delete", id |-> id, data |-> NoBody, pc |-> "get_by_id",
      existing |-> NoRow, current |-> NoRow, exc |-> "None", message |-> "None"]
        : id \in 1..Cardinality(StoredRows)}
    \cup
    {[op |-> "update", id |-> id, data |-> data, pc |-> "get_by_id",
      existing |-> NoRow, current |-> NoRow, exc |-> "None", message |-> "None"]
        : id \in 1..Cardinality(StoredRows), data \in RaceInputs}

InitRace ==
    /\ backend = "raw"
    /\ table = StoredRows /\ id_seq = Cardinality(StoredRows) + 1 /\ db_clock = 1
    /\ outcome = [op |-> "none"]
    /\ reqs \in [1..MaxRequests -> Requests]
    /\ IdleVal /\ IdleMem /\ IdleTxn

\* "existing = self.get_by_id(thought_id)": the first connection of a request
RaceGetById ==
    \E r \in DOMAIN reqs :
        /\ reqs[r].pc = "get_by_id"
        /\ LET g == raw_get_by_id(table, id_seq, reqs[r].id)
           IN  reqs' = [reqs EXCEPT ![r] =
                   IF g.exc # "None"
                   THEN [@ EXCEPT !.pc = "done", !.exc = g.exc, !.message = g.message]
                   ELSE [@ EXCEPT !.pc = "write",
                                  !.existing = RowOf(table, reqs[r].id)]]
        /\ UNCHANGED <<backend, table, id_seq, db_clock, outcome, valvars, memvars, deleted_ids, txn>>

\* the UPDATE / DELETE of a request, in its second connection; 'current' is
\* the row that connection finds
RaceWrite ==
    \E r \in DOMAIN reqs :
        /\ reqs[r].pc = "write"
        /\ LET w == IF reqs[r].op = "delete"
                    THEN raw_delete_write(table, id_seq, reqs[r].id)
                    ELSE raw_update_write(table, id_seq, db_clock, reqs[r].id,
                                          reqs[r].data, reqs[r].existing)
           IN  /\ reqs' = [reqs EXCEPT ![r] =
                     [@ EXCEPT !.pc = "done", !.exc = w.exc, !.message = w.message,
                               !.current = IF Select(table, reqs[r].id) = {} THEN NoRow
                                           ELSE RowOf(table, reqs[r].id)]]
               /\ table' = w.table
               /\ db_clock' = IF w.table \subseteq table THEN db_clock ELSE db_clock + 1
        /\ UNCHANGED <<backend, id_seq, outcome, valvars, memvars, deleted_ids, txn>>

NextRace == RaceGetById \/ RaceWrite

SpecRace == InitRace /\ [][NextRace]_vars

\* C3: interleaved raw-SQL update and delete requests each end in success or
\* in NotFoundError, never in DatabaseError, and a request that wrote found
\* the row as its existence check had read it.
C3_CheckAndWriteTogether ==
    \A r \in DOMAIN reqs :
        reqs[r].pc = "done" =>
            /\ reqs[r].exc \in {"None", "NotFoundError"}
            /\ reqs[r].existing = reqs[r].current

----------------------------------------------------------------------------
(* SpecTxn: one DatabaseManager.execute_transaction(operations) call, *)
(* statement by statement                                             *)

MaxOps == 3             \* most statements of one call

\* INSERT statements, with and without a RETURNING clause
Statements ==
    {[params |-> c, returning |-> b] :
        c \in {Dict([text |-> Str(Abcde)]),
               Dict([text |-> Str(World), category |-> Str(Work),
                     importance |-> Num(7)])},
        b \in BOOLEAN}

InitTxn ==
    /\ backend = "raw"
    /\ table \in {{}, StoredRows}
    /\ id_seq = Cardinality(table) + 1 /\ db_clock = 1
    /\ outcome = [op |-> "none"]
    /\ \E ops \in UNION {[1..n -> Statements] : n \in 0..MaxOps} :
          txn = [pc |-> "connect", operations |-> ops, cursor |-> 0,
                 uncommitted |-> {}, results |-> <<>>, connection |-> "none",
                 commits |-> 0, rollbacks |-> 0, raised |-> <<>>,
                 failed_at |-> 0, before |-> table]
    /\ IdleVal /\ IdleMem /\ IdleReqs

\* cursor.execute in a connection a statement's row is written into
\* at once (autocommit)
cursor_execute_autocommit(tbl, uncommitted, row) ==
    [table |-> tbl \cup {row}, uncommitted |-> uncommitted]

\* cursor.execute of an INSERT on a psycopg2 connection: the row stays in the
\* connection's open transaction
cursor_execute(tbl, uncommitted, row) ==
    [table |-> tbl, uncommitted |-> uncommitted \cup {row}]

\* exc leaves the with-block of execute_transaction: get_connection handles
\* it, the connection (if there is one) is closed, the caller gets what
\* "except psycopg2.Error" makes of it
Raised(exc, k) ==
    LET left == get_connection(exc)
        open == txn.connection = "open"
    IN  /\ txn' = [txn EXCEPT
                     !.pc = "returned",
                     !.uncommitted = {},
                     !.rollbacks = IF left.rollback /\ open THEN @ + 1 ELSE @,
                     !.commits = IF left.commit THEN @ + 1 ELSE @,
                     !.connection = IF open THEN "closed" ELSE @,
                     !.raised = Append(@, execute_except(left.raised)),
                     !.failed_at = k]
        /\ table' = IF left.commit THEN table \cup txn.uncommitted ELSE table

TxnConnect ==
    /\ txn.pc = "connect"
    /\ txn' = [txn EXCEPT !.pc = "cursor", !.connection = "open"]
    /\ UNCHANGED <<backend, table, id_seq, db_clock, outcome, valvars, memvars, deleted_ids, reqs>>

\* psycopg2.connect raises: 'connection' is still None
TxnConnectFails ==
    /\ txn.pc = "connect"
    /\ Raised("psycopg2.OperationalError", 0)
    /\ UNCHANGED <<backend, id_seq, db_clock, outcome, valvars, memvars, deleted_ids, reqs>>

\* one pass of "for operation in operations"
TxnExecute ==
    /\ txn.pc = "cursor" /\ txn.cursor < Len(txn.operations)
    /\ LET op  == txn.operations[txn.cursor + 1]
           row == CHOOSE x \in InsertAll(<<op.params>>, id_seq, db_clock) : TRUE
           e   == cursor_execute(table, txn.uncommitted, row)
       IN  /\ txn' = [txn EXCEPT
                        !.cursor = @ + 1,
                        !.uncommitted = e.uncommitted,
                        !.results = Append(@, IF op.returning THEN row.id ELSE 1)]
           /\ table' = e.table
    /\ id_seq' = id_seq + 1
    /\ UNCHANGED <<backend, db_clock, outcome, valvars, memvars, deleted_ids, reqs>>

\* cursor.execute raises psycopg2.Error
TxnExecuteFails ==
    /\ txn.pc = "cursor" /\ txn.cursor < Len(txn.operations)
    /\ Raised("psycopg2.Error", txn.cursor + 1)
    /\ UNCHANGED <<backend, id_seq, db_clock, outcome, valvars, memvars, deleted_ids, reqs>>

\* "return results": the with-block ends and get_connection commits
TxnCommit ==
    /\ txn.pc = "cursor" /\ txn.cursor = Len(txn.operations)
    /\ LET left == get_connection("None")
       IN  /\ txn' = [txn EXCEPT
                        !.pc = "returned",
                        !.uncommitted = IF left.commit THEN {} ELSE @,
                        !.commits = IF left.commit THEN @ + 1 ELSE @,
                        !.connection = "closed"]
           /\ table' = IF left.commit THEN table \cup txn.uncommitted ELSE table
    /\ UNCHANGED <<backend, id_seq, db_clock, outcome, valvars, memvars, deleted_ids, reqs>>

\* connection.commit() raises psycopg2.Error
TxnCommitFails ==
    /\ txn.pc = "cursor" /\ txn.cursor = Len(txn.operations)
    /\ Raised("psycopg2.Error", 0)
    /\ UNCHANGED <<backend, id_seq, db_clock, outcome, valvars, memvars, deleted_ids, reqs>>

NextTxn ==
    \/ TxnConnect \/ TxnConnectFails
    \/ TxnExecute \/ TxnExecuteFails
    \/ TxnCommit \/ TxnCommitFails

SpecTxn == InitTxn /\ [][NextTxn]_vars

\* C4: execute_transaction is all-or-nothing. No row of the call is in the
\* table before the call returns; when the k-th statement fails the table is
\* as before the call, the connection was rolled back once and closed, no
\* commit happened and the caller got exactly one DatabaseError; when every
\* statement succeeds one commit stores all the rows.
C4_AllOrNothing ==
    txn.pc # "none" =>
        /\ txn.pc # "returned" => table = txn.before
        /\ (txn.pc = "returned" /\ txn.failed_at > 0) =>
              /\ table = txn.before
              /\ txn.commits = 0 /\ txn.rollbacks = 1
              /\ txn.connection = "closed"
              /\ txn.raised = <<"DatabaseError">>
        /\ (txn.pc = "returned" /\ txn.raised # <<>>) =>
              /\ table = txn.before /\ txn.commits = 0
              /\ txn.raised = <<"DatabaseError">>
        /\ (txn.pc = "returned" /\ txn.raised = <<>>) =>
              /\ txn.commits = 1 /\ txn.rollbacks = 0
              /\ txn.connection = "closed"
              /\ Len(txn.results) = Len(txn.operations)
              /\ txn.before \subseteq table
              /\ Cardinality(table \ txn.before) = Len(txn.operations)

\* the third statement of a call failed after two had been executed, on a
\* table that held rows before
C4_Witness ==
    /\ txn.pc = "returned" /\ txn.failed_at = 3
    /\ Len(txn.results) = 2
    /\ txn.raised = <<"DatabaseError">>
    /\ table = txn.before /\ table # {}

----------------------------------------------------------------------------
(* SpecStores: a run of one week-2 application or of one week-3 repository *)

InitStores == InitMem \/ InitRepo

NextStores ==
    \/ variant # "none" /\ NextMem
    \/ backend # "none" /\ NextRepo

SpecStores == InitStores /\ [][NextStores]_vars

\* C13: in step-8 and in the raw-SQL repository, once a delete of id i has
\* succeeded, every later get, update and delete of i is answered not-found
\* (404 / NotFoundError) and leaves the store as it was.
C13_DeletedStaysNotFound ==
    [][/\ (variant = "step8" /\ response'.op \in {"GET", "PUT", "PATCH", "DELETE"}
             /\ response'.id \in deleted_ids)
          => (response'.code = 404 /\ thoughts_storage' = thoughts_storage
              /\ next_id' = next_id)
       /\ (backend = "raw" /\ outcome'.op \in {"get_by_id", "update", "delete"}
             /\ outcome'.id \in deleted_ids)
          => (outcome'.exc = "NotFoundError" /\ table' = table /\ id_seq' = id_seq)
      ]_vars

\* thought 1 of step-8 was deleted, another thought was created afterwards,
\* and a PUT on 1 with a valid body was answered 404
C13_Witness ==
    /\ variant = "step8" /\ 1 \in deleted_ids
    /\ response.op = "PUT" /\ response.id = 1 /\ response.code = 404
    /\ Len(thoughts_storage) > 0
    /\ \A i \in 1..Len(thoughts_storage) : thoughts_storage[i].id > 1

----------------------------------------------------------------------------
(* The week-2 list operation: GET /api/v1/thoughts of step-5, step-8, the *)
(* combined solution and src/app.py                                       *)

\* 'if tag_filter:' on request.args.get(name): Null when the parameter is
\* absent, else its string; an empty string counts as not given
Given(x) == Truthy(x)

digit_value ==
    ("0" :> 0) @@ ("1" :> 1) @@ ("2" :> 2) @@ ("3" :> 3) @@ ("4" :> 4) @@
    ("5" :> 5) @@ ("6" :> 6) @@ ("7" :> 7) @@ ("8" :> 8) @@ ("9" :> 9)

RECURSIVE digits_value(_)
digits_value(s) ==
    IF s = <<>> THEN 0
    ELSE 10 * digits_value(SubSeq(s, 1, Len(s) - 1)) + digit_value[s[Len(s)]]

\* int(s) of Python for a str: surrounding whitespace is dropped, one sign is
\* allowed, then decimal digits, single underscores between digits allowed;
\* anything else raises ValueError
int(s) ==
    LET body   == strip(s)
        signed == body # <<>> /\ body[1] \in {"+", "-"}
        num    == IF signed THEN Tail(body) ELSE body
        wellformed ==
            /\ num # <<>>
            /\ \A i \in 1..Len(num) : num[i] \in DOMAIN digit_value \cup {"_"}
            /\ num[1] # "_" /\ num[Len(num)] # "_"
            /\ \A i \in 1..(Len(num) - 1) : ~(num[i] = "_" /\ num[i + 1] = "_")
        magnitude == digits_value(SelectSeq(num, LAMBDA c : c # "_"))
    IN  IF ~wellformed THEN [raised |-> "ValueError", v |-> 0]
        ELSE [raised |-> "None",
              v |-> IF signed /\ body[1] = "-" THEN 0 - magnitude ELSE magnitude]

\* results[:n]
slice_to(results, n) ==
    LET stop == IF n < 0 THEN Len(results) + n ELSE n
    IN  SubSeq(results, 1, IF stop < 0 THEN 0
                           ELSE IF stop > Len(results) THEN Len(results) ELSE stop)

\* 'tag in t["tags"]' for the tag of a query string
in_tags(thought, tag) == \E i \in 1..Len(thought.tags) : thought.tags[i] = tag

\* the characters of the model's authors in code point order
code_points ==
    <<" ", "-", "0", "1", "2", "3", "4", "5", "6", "7", "8", "9",
      "A", "B", "C", "D", "E", "F", "G", "H", "I", "J", "K", "L", "M",
      "N", "O", "P", "Q", "R", "S", "T", "U", "V", "W", "X", "Y", "Z", "_",
      "a", "b", "c", "d", "e", "f", "g", "h", "i", "j", "k", "l", "m",
      "n", "o", "p", "q", "r", "s", "t", "u", "v", "w", "x", "y", "z">>
ord(c) == CHOOSE i \in 1..Len(code_points) : code_points[i] = c

\* s < t for two Python str
RECURSIVE str_less(_, _)
str_less(s, t) ==
    IF t = <<>> THEN FALSE
    ELSE IF s = <<>> THEN TRUE
    ELSE IF Head(s) = Head(t) THEN str_less(Tail(s), Tail(t))
    ELSE ord(Head(s)) < ord(Head(t))

\* x[field] < y[field]: integers for id and timestamp, the stored JSON value
\* for author
key_less(field, x, y) ==
    IF field # "author" THEN x[field] < y[field]
    ELSE IF x.author.t = "int" THEN x.author.v < y.author.v
    ELSE str_less(x.author.v, y.author.v)

\* sorted(results, key=lambda x: x[field]): stable, each element goes after
\* the last element that is not greater
RECURSIVE sorted(_, _)
sorted(results, field) ==
    IF results = <<>> THEN <<>>
    ELSE LET init == sorted(SubSeq(results, 1, Len(results) - 1), field)
             x    == results[Len(results)]
             before == {i \in 1..Len(init) : ~key_less(field, x, init[i])}
             k    == IF before = {} THEN 0 ELSE CHOOSE i \in before : \A j \in before : j <= i
         IN  SubSeq(init, 1, k) \o <<x>> \o SubSeq(init, k + 1, Len(init))

\* '<' between a str and an int raises TypeError
sort_raises(results, field) ==
    /\ field = "author"
    /\ \E i, j \in 1..Len(results) : results[i].author.t # results[j].author.t

ListResponse(q, code, message, total, thoughts) ==
    [op |-> "LIST", id |-> 0, code |-> code, message |-> message, thought |-> Null,
     query |-> q, total |-> total, thoughts |-> thoughts]

\* module-level data of step-5-query-parameters.py
step5_storage ==
    [i \in 1..Len(combined_initial_storage) |->
        [id |-> combined_initial_storage[i].id, text |-> combined_initial_storage[i].text,
         tags |-> combined_initial_storage[i].tags,
         author |-> combined_initial_storage[i].author]]

\* a list that ignores a limit it cannot parse
step5_get_thoughts_ignoring_bad_limit(storage, q) ==
    LET tagged   == IF Given(q.tag)
                    THEN SelectSeq(storage, LAMBDA t : in_tags(t, q.tag.v)) ELSE storage
        authored == IF Given(q.author)
                    THEN SelectSeq(tagged, LAMBDA t : t.author.t = "str" /\ t.author.v = q.author.v)
                    ELSE tagged
        limit_num == int(q.limit.v)
        results  == IF Given(q.limit) /\ limit_num.raised = "None"
                    THEN slice_to(authored, limit_num.v) ELSE authored
    IN  ListResponse(q, 200, "None", Len(results), results)

\* step-5-query-parameters.py GET /api/v1/thoughts
step5_get_thoughts(storage, q) ==
    LET tagged   == IF Given(q.tag)
                    THEN SelectSeq(storage, LAMBDA t : in_tags(t, q.tag.v)) ELSE storage
        authored == IF Given(q.author)
                    THEN SelectSeq(tagged, LAMBDA t : t.author.t = "str" /\ t.author.v = q.author.v) ELSE tagged
        limit_num == int(q.limit.v)
        results  == IF Given(q.limit) THEN slice_to(authored, limit_num.v) ELSE authored
    IN  IF Given(q.limit) /\ limit_num.raised # "None"
        THEN ListResponse(q, 400, "Limit must be a number", 0, <<>>)
        ELSE ListResponse(q, 200, "None", Len(results), results)

\* a list that keeps the thoughts with a tag that starts with the query's tag
step8_get_thoughts_prefix(storage, q) ==
    LET starts(tag) == Len(tag) >= Len(q.tag.v) /\ SubSeq(tag, 1, Len(q.tag.v)) = q.tag.v
        results == IF Given(q.tag)
                   THEN SelectSeq(storage, LAMBDA t : \E i \in 1..Len(t.tags) : starts(t.tags[i]))
                   ELSE storage
    IN  ListResponse(q, 200, "None", Len(results), results)

\* step-8-full-crud.py GET /api/v1/thoughts: only 'tag' is read
step8_get_thoughts(storage, q) ==
    LET results == IF Given(q.tag)
                   THEN SelectSeq(storage, LAMBDA t : in_tags(t, q.tag.v)) ELSE storage
    IN  ListResponse(q, 200, "None", Len(results), results)

\* request.args.get("sort", "id")
sort_or_default(q) == IF q.sort = Null THEN "id" ELSE q.sort.v
SortFields == {"id", "author", "timestamp"}

\* steps-5-8-combined-solution.py GET /api/v1/thoughts
combined_get_thoughts(storage, q) ==
    LET sort_by  == sort_or_default(q)
        tagged   == IF Given(q.tag)
                    THEN SelectSeq(storage, LAMBDA t : in_tags(t, q.tag.v)) ELSE storage
        authored == IF Given(q.author)
                    THEN SelectSeq(tagged, LAMBDA t : t.author.t = "str" /\ t.author.v = q.author.v) ELSE tagged
        min_tags_num == int(q.min_tags.v)
        filtered == IF Given(q.min_tags)
                    THEN SelectSeq(authored, LAMBDA t : Len(t.tags) >= min_tags_num.v)
                    ELSE authored
        ordered  == sorted(filtered, sort_by)
        limit_num == int(q.limit.v)
        results  == IF Given(q.limit) THEN slice_to(ordered, limit_num.v) ELSE ordered
    IN  IF sort_by \notin SortFields
        THEN ListResponse(q, 400, "Sort must be one of: id, author, timestamp", 0, <<>>)
        ELSE IF Given(q.min_tags) /\ min_tags_num.raised # "None"
        THEN ListResponse(q, 400, "min_tags must be a number", 0, <<>>)
        ELSE IF sort_raises(filtered, sort_by)
        THEN ListResponse(q, 500, <<"Internal server error: ", "TypeError">>, 0, <<>>)
        ELSE IF Given(q.limit) /\ limit_num.raised # "None"
        THEN ListResponse(q, 400, "Limit must be a number", 0, <<>>)
        ELSE ListResponse(q, 200, "None", Len(results), results)

\* query strings sent to the list operation
Flask  == <<"f", "l", "a", "s", "k">>
Python == <<"p", "y", "t", "h", "o", "n">>
Alice  == <<"A", "l", "i", "c", "e">>
Query(tag, author, limit, sort, min_tags) ==
    [tag |-> tag, author |-> author, limit |-> limit, sort |-> sort, min_tags |-> min_tags]
Queries ==
    {Query(Null, Null, Null, Null, Null),
     Query(Str(Flask), Null, Null, Null, Null),
     Query(Str(<<>>), Null, Null, Null, Null),
     Query(Str(Python), Null, Null, Null, Null),
     Query(Str(<<"c", "d">>), Null, Null, Null, Null),
     Query(Str(<<"f", "l", "a", "s">>), Null, Null, Null, Null),
     Query(Null, Str(Alice), Null, Null, Null),
     Query(Null, Str(<<"a", "l", "i", "c", "e">>), Null, Null, Null),
     Query(Null, Str(<<"l", "i">>), Null, Null, Null),
     Query(Str(Python), Str(Alice), Null, Null, Null),
     Query(Str(Python), Str(Alice), Null, Null, Str(<<"3">>)),
     Query(Null, Null, Str(<<"2">>), Null, Null),
     Query(Null, Null, Str(<<"-", "1">>), Null, Null),
     Query(Null, Null, Str(<<"a", "b", "c">>), Null, Null),
     Query(Null, Null, Str(<<"0">>), Null, Null),
     Query(Null, Null, Null, Null, Str(<<"a", "b", "c">>)),
     Query(Null, Null, Null, Null, Str(<<"2">>)),
     Query(Null, Null, Null, Str("author"), Null),
     Query(Null, Null, Null, Str("timestamp"), Null),
     Query(Null, Null, Null, Str("text"), Null),
     Query(Null, Null, Str(<<"2">>), Str("author"), Null),
     Query(Str(Flask), Null, Str(<<"1">>), Null, Null)}

----------------------------------------------------------------------------
(* SpecQuery: step-5, step-8 or the combined solution answering list *)
(* requests between creates and deletes                               *)

InitQuery ==
    /\ \/ variant = "step5" /\ thoughts_storage = step5_storage /\ next_id = 1
       \/ variant = "step8" /\ thoughts_storage = <<>> /\ next_id = 1
       \/ variant = "step8" /\ thoughts_storage = step8_sample_storage /\ next_id = 2
       \/ variant = "combined" /\ thoughts_storage = combined_initial_storage /\ next_id = 6
    /\ clock = 0
    /\ response = [op |-> "none", code |-> 0]
    /\ issued_ids = <<>>
    /\ deleted_ids = {}
    /\ IdleVal /\ IdleRepo /\ IdleReqs /\ IdleTxn

\* a list request was answered with r
Listed(r) ==
    /\ response' = r
    /\ UNCHANGED <<thoughts_storage, next_id, clock, issued_ids, deleted_ids, variant,
                   valvars, repovars, reqs, txn>>

Step5List ==
    /\ variant = "step5"
    /\ \E q \in Queries : Listed(step5_get_thoughts(thoughts_storage, q))

Step8List ==
    /\ variant = "step8"
    /\ \E q \in Queries : Listed(step8_get_thoughts(thoughts_storage, q))

CombinedList ==
    /\ variant = "combined"
    /\ \E q \in Queries : Listed(combined_get_thoughts(thoughts_storage, q))

NextQuery ==
    \/ Step5List \/ Step8List \/ CombinedList
    \/ Step8Create \/ Step8Delete
    \/ CombinedCreate \/ CombinedDelete

SpecQuery == InitQuery /\ [][NextQuery]_vars

Range(s) == {s[i] : i \in 1..Len(s)}
ListAnswered(v) == variant \in v /\ response.op = "LIST"
OnlyTagGiven ==
    /\ response.query.tag # Null
    /\ response.query.author = Null /\ response.query.limit = Null
    /\ response.query.sort = Null /\ response.query.min_tags = Null

\* the answer holds exactly the stored thoughts that have the query's tag as
\* an element, each once, by ascending id
ReturnsExactlyTagged ==
    /\ response.code = 200
    /\ \A k \in 1..Len(thoughts_storage) :
          thoughts_storage[k] \in Range(response.thoughts)
             <=> response.query.tag.v \in Range(thoughts_storage[k].tags)
    /\ Range(response.thoughts) \subseteq Range(thoughts_storage)
    /\ \A i, j \in 1..Len(response.thoughts) :
          i < j => response.thoughts[i].id < response.thoughts[j].id

\* the thoughts one parameter of the query keeps when it is sent alone; all
\* of them when the query does not have it
KeptBy(name) ==
    IF response.query[name] = Null THEN Range(thoughts_storage)
    ELSE Range(combined_get_thoughts(thoughts_storage,
                  [Query(Null, Null, Null, Null, Null) EXCEPT ![name] = response.query[name]]
               ).thoughts)

\* without a limit the combined solution returns the thoughts every supplied
\* filter keeps
FiltersCombineAsAnd ==
    (ListAnswered({"combined"}) /\ response.code = 200 /\ response.query.limit = Null)
    => Range(response.thoughts) = KeptBy("tag") \cap KeptBy("author") \cap KeptBy("min_tags")

\* C21 as stated: for every value T of 'tag' sent alone, step-8 and the
\* combined solution return exactly the stored thoughts that have T as an
\* element of tags, by ascending id; supplied filters combine as AND.
C21_TagFilterExact ==
    /\ (ListAnswered({"step8", "combined"}) /\ OnlyTagGiven) => ReturnsExactlyTagged
    /\ FiltersCombineAsAnd

\* C21 amended: the same for every non-empty T; 'tag=' with an empty value
\* is treated like an absent parameter, and an absent parameter keeps every
\* stored thought.
C21_NonEmptyTagFilterExact ==
    /\ (ListAnswered({"step8", "combined"}) /\ OnlyTagGiven /\ response.query.tag.v # <<>>)
          => ReturnsExactlyTagged
    /\ FiltersCombineAsAnd

\* 'tag=flask' alone returned thoughts 1 and 5 of the combined solution
C21_Witness ==
    /\ ListAnswered({"combined"}) /\ OnlyTagGiven /\ response.query.tag.v = Flask
    /\ Len(thoughts_storage) = 5 /\ Len(response.thoughts) = 2
    /\ response.thoughts[1].id = 1 /\ response.thoughts[2].id = 5

OnlyAuthorGiven ==
    /\ Given(response.query.author)
    /\ response.query.tag = Null /\ response.query.limit = Null
    /\ response.query.sort = Null /\ response.query.min_tags = Null

\* the author of the thought contains a, letter case ignored
AuthorContains(thought, a) == IsStr(thought.author) /\ ilike(thought.author.v, a)

\* C22: 'author=A' sent alone to step-5 or to the combined solution returns
\* exactly the stored thoughts whose author contains A, letter case ignored.
C22_AuthorFilterIsSubstring ==
    (ListAnswered({"step5", "combined"}) /\ OnlyAuthorGiven)
    => /\ response.code = 200
       /\ \A k \in 1..Len(thoughts_storage) :
             thoughts_storage[k] \in Range(response.thoughts)
                <=> AuthorContains(thoughts_storage[k], response.query.author.v)
       /\ Range(response.thoughts) \subseteq Range(thoughts_storage)

\* the answer of the running file to the last query sent without its limit
WithoutLimit ==
    IF variant = "step5"
    THEN step5_get_thoughts(thoughts_storage, [response.query EXCEPT !.limit = Null])
    ELSE combined_get_thoughts(thoughts_storage, [response.query EXCEPT !.limit = Null])

\* C23: the 'total' of a list answer of step-5 or of the combined solution
\* is the number of thoughts that match the filters before the limit is
\* applied, whatever the limit.
C23_TotalIsPreLimit ==
    (ListAnswered({"step5", "combined"}) /\ response.code = 200)
    => response.total = Len(WithoutLimit.thoughts)

LimitParses == Given(response.query.limit) /\ int(response.query.limit.v).raised = "None"
LimitValue == int(response.query.limit.v).v
FirstOf(s, n) == SubSeq(s, 1, IF n < Len(s) THEN n ELSE Len(s))

\* C24: a list request of step-5 or of the combined solution whose 'limit'
\* parses to a negative integer is answered 400; one whose 'limit' parses to
\* n >= 0 and that is answered 200 returns the first min(n, m) of the m
\* filtered and sorted thoughts.
C24_NegativeLimitRejected ==
    (ListAnswered({"step5", "combined"}) /\ LimitParses)
    => IF LimitValue < 0 THEN response.code = 400
       ELSE response.code = 200
               => response.thoughts = FirstOf(WithoutLimit.thoughts, LimitValue)

NotNumeric(x) == Given(x) /\ int(x.v).raised = "ValueError"
NumberMessages == {"Limit must be a number", "min_tags must be a number"}

\* the list request r answers has the default sort and a 'limit' that is not
\* numeric next to a 'min_tags' that is absent or numeric, or (combined
\* solution) a 'min_tags' that is not numeric
AsksWithBadNumber(r) ==
    /\ r.op = "LIST" /\ r.query.sort = Null
    /\ \/ variant \in {"step5", "combined"} /\ NotNumeric(r.query.limit)
             /\ ~NotNumeric(r.query.min_tags)
       \/ variant = "combined" /\ NotNumeric(r.query.min_tags)

SortField == sort_or_default(response.query)
PositionOf(thought) == CHOOSE k \in 1..Len(thoughts_storage) : thoughts_storage[k] = thought

\* the answer is in non-decreasing order of the sort field, thoughts with
\* equal keys in storage order
SortedStable ==
    \A i, j \in 1..Len(response.thoughts) :
        i < j =>
          /\ ~key_less(SortField, response.thoughts[j], response.thoughts[i])
          /\ ~key_less(SortField, response.thoughts[i], response.thoughts[j])
                => PositionOf(response.thoughts[i]) < PositionOf(response.thoughts[j])

\* C26: a list request of the combined solution with a sort value outside
\* {id, author, timestamp} is answered 400 without a list; with a sort value
\* in the set (or none: id) and numeric limit and min_tags it is answered 200
\* with the thoughts in non-decreasing order of that field, equal keys in
\* storage order.
C26_SortedAndStable ==
    ListAnswered({"combined"}) =>
        IF SortField \notin SortFields
        THEN response.code = 400 /\ response.thoughts = <<>>
        ELSE (~NotNumeric(response.query.limit) /\ ~NotNumeric(response.query.min_tags))
                => (response.code = 200 /\ SortedStable)

----------------------------------------------------------------------------
(* SpecCreates: create_thought requests of step-8 or of the combined       *)
(* solution served by concurrent threads, each in three steps: build the   *)
(* new record (reading next_id), append it, increment next_id; with        *)
(* external synchronization a request runs its three steps under one lock  *)

RaceBodies ==
    {NoBody,
     Dict([text |-> Str(Hello), tags |-> Lst(<<Str(<<"a", "b", "\n">>), Str(<<"c", "d">>)>>)]),
     Dict([text |-> Str(Hello), tags |-> Lst(<<Str(<<"c", "d">>)>>), author |-> Num(7)])}

CreateRequests(sync) ==
    {[op |-> "create", data |-> data, pc |-> "start", sync |-> sync,
      new_thought |-> Null, code |-> 0] : data \in RaceBodies}

InitCreates ==
    /\ \/ variant = "step8" /\ thoughts_storage = <<>> /\ next_id = 1
       \/ variant = "step8" /\ thoughts_storage = step8_sample_storage /\ next_id = 2
       \/ variant = "combined" /\ thoughts_storage = combined_initial_storage /\ next_id = 6
    /\ clock = 0
    /\ response = [op |-> "none", code |-> 0]
    /\ issued_ids = <<>>
    /\ deleted_ids = {}
    /\ \E sync \in BOOLEAN : reqs \in [1..MaxRequests -> CreateRequests(sync)]
    /\ IdleVal /\ IdleRepo /\ IdleTxn

\* a lock that every request may take at any time
lock_is_free_unchecked(r) == TRUE

\* the lock of a synchronized run is free when no request is between its
\* first and its last step
lock_is_free(r) ==
    reqs[r].sync => \A o \in DOMAIN reqs : reqs[o].pc \in {"start", "done"}

\* what the handler of the running file answers when it runs alone now
create_alone(data) ==
    IF variant = "step8" THEN step8_create_thought(thoughts_storage, next_id, data, clock)
    ELSE combined_create_thought(thoughts_storage, next_id, data, clock)

\* get_json, validate_thought_data, and new_thought = {"id": next_id, ...}
CreateBuild ==
    \E r \in DOMAIN reqs :
        /\ reqs[r].pc = "start" /\ lock_is_free(r)
        /\ LET l == create_alone(reqs[r].data)
           IN  IF l.response.code # 201
               THEN /\ reqs' = [reqs EXCEPT ![r] = [@ EXCEPT !.pc = "done",
                                                            !.code = l.response.code]]
                    /\ response' = WithBody(l.response, reqs[r].data)
                    /\ clock' = clock
               ELSE /\ reqs' = [reqs EXCEPT ![r] = [@ EXCEPT !.pc = "built",
                                                            !.new_thought = l.response.thought]]
                    /\ response' = response
                    /\ clock' = clock + 1
        /\ UNCHANGED <<variant, thoughts_storage, next_id, issued_ids, deleted_ids,
                       valvars, repovars, txn>>

\* thoughts_storage.append(new_thought)
CreateAppend ==
    \E r \in DOMAIN reqs :
        /\ reqs[r].pc = "built"
        /\ thoughts_storage' = Append(thoughts_storage, reqs[r].new_thought)
        /\ reqs' = [reqs EXCEPT ![r] = [@ EXCEPT !.pc = "appended"]]
        /\ UNCHANGED <<variant, next_id, clock, response, issued_ids, deleted_ids,
                       valvars, repovars, txn>>

\* next_id += 1, and the 201 answer
CreateIncrement ==
    \E r \in DOMAIN reqs :
        /\ reqs[r].pc = "appended"
        /\ next_id' = next_id + 1
        /\ reqs' = [reqs EXCEPT ![r] = [@ EXCEPT !.pc = "done", !.code = 201]]
        /\ response' = WithBody(ThoughtResponse("POST", reqs[r].new_thought.id, 201,
                                                reqs[r].new_thought), reqs[r].data)
        /\ issued_ids' = Append(issued_ids, reqs[r].new_thought.id)
        /\ UNCHANGED <<variant, thoughts_storage, clock, deleted_ids, valvars, repovars, txn>>

NextCreates == CreateBuild \/ CreateAppend \/ CreateIncrement

SpecCreates == InitCreates /\ [][NextCreates]_vars

Synchronized == \A r \in DOMAIN reqs : reqs[r].sync
SharedId ==
    \E i, j \in 1..Len(thoughts_storage) :
        i # j /\ thoughts_storage[i].id = thoughts_storage[j].id

\* C27: when every create request runs its three steps (read next_id into
\* the new record, append, increment) without another request in between,
\* no two stored thoughts share an id; without that synchronization a state
\* with two thoughts of the same id is reachable (C27_Witness).
C27_AtomicCreatesKeepIdsUnique == Synchronized => ~SharedId

\* two interleaved creates have both finished and stored the same id
C27_Witness ==
    /\ ~Synchronized /\ SharedId
    /\ \A r \in DOMAIN reqs : reqs[r].pc = "done" /\ reqs[r].code = 201

----------------------------------------------------------------------------
(* ids of the in-memory stores under sequential serving *)

InMemoryCrud == variant \in {"step8", "combined"}

IdsPairwiseDistinct ==
    \A i, j \in 1..Len(thoughts_storage) :
        thoughts_storage[i].id = thoughts_storage[j].id => i = j

IdsBelowNextId ==
    \A i \in 1..Len(thoughts_storage) : thoughts_storage[i].id < next_id

\* C28: with requests served one at a time, in every reachable state of the
\* stores of step-8 and of the combined solution no two stored thoughts
\* have the same id and every stored id is strictly smaller than next_id.
C28_IdsUniqueAndBelowNextId ==
    InMemoryCrud => IdsPairwiseDistinct /\ IdsBelowNextId

\* a bulk delete removed some thoughts of the combined solution after a
\* create had been served, and thoughts are left
C28_Witness ==
    /\ variant = "combined"
    /\ response.op = "DELETE bulk" /\ response.code = 200 /\ response.id > 0
    /\ issued_ids # <<>>
    /\ Len(thoughts_storage) >= 2

----------------------------------------------------------------------------
(* stored tags of the combined solution *)

TagsPairwiseDistinct(thought) ==
    \A i, j \in 1..Len(thought.tags) : thought.tags[i] = thought.tags[j] => i = j

\* C29: in the combined solution no stored thought holds the same tag
\* twice: after any successful create, PUT or PATCH the stored (trimmed)
\* tags of every thought are pairwise distinct.
C29_StoredTagsDistinct ==
    variant = "combined" =>
        \A i \in 1..Len(thoughts_storage) : TagsPairwiseDistinct(thoughts_storage[i])

----------------------------------------------------------------------------
(* tags that are not strings, sent to the combined solution *)

\* the body of the answered request has a 'tags' list with an element that
\* is not a string
SentNonStringTag ==
    /\ "body" \in DOMAIN response
    /\ response.body.t = "dict" /\ Has(response.body, "tags")
    /\ response.body.v.tags.t = "list"
    /\ \E i \in 1..Len(response.body.v.tags.v) : response.body.v.tags.v[i].t # "str"

\* C30: a create, PUT or PATCH of the combined solution (for a stored
\* thought) whose 'tags' list contains a non-string element is answered
\* 400 'All tags must be strings', never 500.
C30_NonStringTagIsRejected ==
    (/\ variant = "combined"
     /\ response.op \in {"POST", "PUT", "PATCH"}
     /\ response.code # 404
     /\ SentNonStringTag)
    => response.code = 400 /\ response.message = "All tags must be strings"













====
